---- MODULE Spec2Model ----
(***************************************************************************)
(* Riko runtime: the async bridge (runtime/src/future.rs with its JNI      *)
(* entry points in jni/runtime-rust/src/future.rs) and the handle pool of  *)
(* heap objects (runtime/src/object.rs).                                   *)
(*                                                                         *)
(* Handle is i32.  The model keeps the signed wrap-around of the type but  *)
(* scales its range down to MinHandle..MaxHandle.                          *)
(***************************************************************************)
EXTENDS Integers, FiniteSets, Sequences, TLC

\* Largest Handle of the scaled-down i32 range.
MaxHandle == 0

\* Smallest Handle of the scaled-down i32 range (two's complement).
MinHandle == 0 - MaxHandle - 1

\* Number of futures that can be in flight on the executor at once.
MaxTasks == 2

\* Number of threads calling into the handle pool.
MaxThreads == 2

\* Number of objects that can exist at once.
MaxObjects == 2

\* Depth of peek calls nested through actions.
MaxDepth == 2

\* Largest value an object holds: the actions count in it modulo MaxContent + 1.
MaxContent == 1

Handles == MinHandle..MaxHandle

Slots == 1..MaxTasks

NoTask == 0

VARIABLES
    counter,     \* future::Pool.counter
    pool,        \* future::Pool.pool: handle -> task owning the RemoteHandle
    poisoned,    \* the Mutex around future::POOL is poisoned
    mutex,       \* task holding the Mutex around future::POOL, or NoTask
    task,        \* the spawned async blocks, one per executor slot
    notified,    \* notifier(h, ..) calls since spawn last returned h
    lastOp       \* the operation performed by the last step

VARIABLES
    objCounter,  \* object::Pool.counter
    objPool,     \* object::Pool.pool: handle -> the Arc stored under it
    objects,     \* the Mutex<dyn Any> behind every Arc
    readers,     \* read guards of object::Pool.pool: <<thread, depth of the peek>>
    stacks,      \* per thread, the peek calls in progress, outermost first
    replaced,    \* per handle, a store has replaced the object of the live handle
    memory,      \* what the actions read from and wrote to the objects
    objOp        \* the operation performed by the last step

VARIABLES
    call,        \* the conversion last applied and the raw result given to it
    returned     \* the Returned it produced

futureVars == <<counter, pool, poisoned, mutex, task, notified, lastOp>>

objectVars == <<objCounter, objPool, objects, readers, stacks, replaced, memory, objOp>>

VARIABLES
    function,    \* the Function being written, with its Module's path and its Crate's name
    bridge,      \* the symbol of the bridge function written for it
    target,      \* the package, class and native method written for it
    expanded     \* the symbol the attribute macro gives it

VARIABLES
    declared,    \* the declared type of a parameter or of a return value
    marshal,     \* the rule given for it by an attribute, or NoRule
    parsed       \* what was made of them, and by what

VARIABLES
    source,      \* the crate as it is written
    ir,          \* the Crate parsed from it
    collected    \* the guards collected for its function

VARIABLES
    files,       \* the file system: what is at each path of the crate
    scanned,     \* what Crate::parse made of the crate in the last run
    generated,   \* the bridge functions written in the last run
    passes       \* how many times bindgen has run

returnedVars == <<call, returned>>

writerVars == <<function, bridge, target, expanded>>

inferVars == <<declared, marshal, parsed>>

treeVars == <<files, scanned, generated, passes>>

cfgVars == <<source, ir, collected, treeVars>>

\* The state of the runtime.
runtimeVars == <<futureVars, objectVars, returnedVars>>

\* The state of the code generator.
compilerVars == <<writerVars, inferVars, cfgVars>>

vars == <<runtimeVars, compilerVars>>

IdleTask == [pc |-> "idle", handle |-> 0, cancelled |-> FALSE, token |-> NoTask]

Op(name, h, ok, present) == [op |-> name, h |-> h, ok |-> ok, present |-> present]

\* `+= 1` on an i32 in a build without overflow checks.
WrapInc(c) == IF c = MaxHandle THEN MinHandle ELSE c + 1

\* Pool::new_handle: the previous counter value is the new handle.  At
\* i32::MAX the increment wraps in a build without overflow checks and
\* panics in a build with them.
new_handle(c) ==
    {[handle |-> c, counter |-> WrapInc(c), panic |-> FALSE]}
    \cup (IF c = MaxHandle
          THEN {[handle |-> c, counter |-> c, panic |-> TRUE]}
          ELSE {})

\* Pool::spawn without the assertion on the value returned by insert.
Pool_spawn_NoAssert(s) ==
    \E o \in new_handle(counter) :
        IF o.panic
        THEN /\ poisoned' = TRUE
             /\ lastOp' = Op("spawn", o.handle, FALSE, pool[o.handle] # NoTask)
             /\ UNCHANGED <<counter, pool, mutex, task, notified>>
        ELSE /\ counter' = o.counter
             /\ pool' = [pool EXCEPT ![o.handle] = s]
             /\ task' = [t \in Slots |->
                            IF t = s
                            THEN [pc |-> "running", handle |-> o.handle,
                                  cancelled |-> FALSE, token |-> NoTask]
                            ELSE IF t = pool[o.handle]
                                 THEN [task[t] EXCEPT !.cancelled = TRUE]
                                 ELSE task[t]]
             /\ notified' = [notified EXCEPT ![o.handle] = 0]
             /\ lastOp' = Op("spawn", o.handle, TRUE, pool[o.handle] # NoTask)
             /\ UNCHANGED <<poisoned, mutex>>

\* Pool::spawn, called with the Mutex around POOL held by the caller.
\* s is the executor slot the new task will run in.
Pool_spawn(s) ==
    \E o \in new_handle(counter) :
        LET old == pool[o.handle] IN
        IF o.panic
        THEN /\ poisoned' = TRUE
             /\ lastOp' = Op("spawn", o.handle, FALSE, old # NoTask)
             /\ UNCHANGED <<counter, pool, mutex, task, notified>>
        ELSE IF old # NoTask
        THEN \* the assertion fails: the old token is dropped while unwinding,
             \* the new task is never handed to the executor
             /\ counter' = o.counter
             /\ pool' = [pool EXCEPT ![o.handle] = s]
             /\ task' = [task EXCEPT ![old].cancelled = TRUE]
             /\ poisoned' = TRUE
             /\ lastOp' = Op("spawn", o.handle, FALSE, TRUE)
             /\ UNCHANGED <<mutex, notified>>
        ELSE /\ counter' = o.counter
             /\ pool' = [pool EXCEPT ![o.handle] = s]
             /\ task' = [task EXCEPT ![s] =
                            [pc |-> "running", handle |-> o.handle,
                             cancelled |-> FALSE, token |-> NoTask]]
             /\ notified' = [notified EXCEPT ![o.handle] = 0]
             /\ lastOp' = Op("spawn", o.handle, TRUE, FALSE)
             /\ UNCHANGED <<poisoned, mutex>>

\* Pool::cancel with `.remove(&handle).unwrap()`-like handling of the entry.
Pool_cancel_Expect(h) ==
    IF pool[h] = NoTask
    THEN /\ poisoned' = TRUE
         /\ lastOp' = Op("cancel", h, FALSE, FALSE)
         /\ UNCHANGED <<counter, pool, mutex, task, notified>>
    ELSE /\ pool' = [pool EXCEPT ![h] = NoTask]
         /\ task' = [task EXCEPT ![pool[h]].cancelled = TRUE]
         /\ lastOp' = Op("cancel", h, TRUE, TRUE)
         /\ UNCHANGED <<counter, poisoned, mutex, notified>>

\* Pool::cancel, called with the Mutex around POOL held by the caller:
\* removing the entry drops the RemoteHandle, which cancels the task.
Pool_cancel(h) ==
    /\ pool' = [pool EXCEPT ![h] = NoTask]
    /\ task' = IF pool[h] = NoTask
               THEN task
               ELSE [task EXCEPT ![pool[h]].cancelled = TRUE]
    /\ lastOp' = Op("cancel", h, TRUE, pool[h] # NoTask)
    /\ UNCHANGED <<counter, poisoned, mutex, notified>>

\* `POOL.lock().unwrap()` of a JNI entry point on a poisoned Mutex.
LockPoisoned(name) ==
    /\ lastOp' = Op(name, 0, FALSE, FALSE)
    /\ UNCHANGED <<counter, pool, poisoned, mutex, task, notified>>

\* jni/runtime-rust spawn: POOL.lock().unwrap().spawn(task, notify_completed)
spawn(s) ==
    /\ mutex = NoTask
    /\ task[s].pc = "idle"
    /\ IF poisoned THEN LockPoisoned("spawn_lock") ELSE Pool_spawn(s)

\* Java_riko_Future_cancel: POOL.lock().unwrap().cancel(handle)
Java_riko_Future_cancel(h) ==
    /\ mutex = NoTask
    /\ IF poisoned THEN LockPoisoned("cancel_lock") ELSE Pool_cancel(h)

\* The spawned async block, `task.await.into()`: the future finishes and its
\* output is converted into a Returned.
TaskFinish(s) ==
    /\ task[s].pc = "running"
    /\ task' = [task EXCEPT ![s].pc = "converted"]
    /\ lastOp' = Op("finish", task[s].handle, TRUE, FALSE)
    /\ UNCHANGED <<counter, pool, poisoned, mutex, notified>>

\* The Remote wrapper of a task whose RemoteHandle was dropped finds the
\* cancellation at its next poll and drops the future.
TaskDropped(s) ==
    /\ task[s].pc = "running"
    /\ task[s].cancelled
    /\ task' = [task EXCEPT ![s] = IdleTask]
    /\ lastOp' = Op("dropped", task[s].handle, TRUE, FALSE)
    /\ UNCHANGED <<counter, pool, poisoned, mutex, notified>>

\* The spawned async block, `POOL.lock().unwrap()`.
TaskLock(s) ==
    /\ task[s].pc = "converted"
    /\ mutex = NoTask
    /\ IF poisoned
       THEN /\ task' = [task EXCEPT ![s] = IdleTask]
            /\ lastOp' = Op("task_lock", task[s].handle, FALSE, FALSE)
            /\ UNCHANGED mutex
       ELSE /\ task' = [task EXCEPT ![s].pc = "locked"]
            /\ mutex' = s
            /\ lastOp' = Op("task_lock", task[s].handle, TRUE, FALSE)
    /\ UNCHANGED <<counter, pool, poisoned, notified>>

\* The completion step that calls the notifier whether or not the removal
\* found an entry.
TaskRemove_Always(s) ==
    /\ task[s].pc = "locked"
    /\ pool' = [pool EXCEPT ![task[s].handle] = NoTask]
    /\ task' = [task EXCEPT ![s].pc = "removed",
                            ![s].token = pool[task[s].handle]]
    /\ lastOp' = Op("remove", task[s].handle, TRUE, pool[task[s].handle] # NoTask)
    /\ UNCHANGED <<counter, poisoned, mutex, notified>>

\* The completion step with the removal bound by a `let` of its own: the
\* guard of the Mutex is dropped at the end of that statement.
TaskRemove_Unlocked(s) ==
    /\ task[s].pc = "locked"
    /\ LET h == task[s].handle IN
       IF pool[h] # NoTask
       THEN /\ pool' = [pool EXCEPT ![h] = NoTask]
            /\ task' = [task EXCEPT ![s].pc = "removed", ![s].token = pool[h]]
            /\ lastOp' = Op("remove", h, TRUE, TRUE)
       ELSE /\ task' = [task EXCEPT ![s] = IdleTask]
            /\ lastOp' = Op("remove", h, TRUE, FALSE)
            /\ UNCHANGED pool
    /\ mutex' = NoTask
    /\ UNCHANGED <<counter, poisoned, notified>>

\* The spawned async block, `if let Some(token) = ...pool.remove(&handle)`.
\* The guard of the Mutex lives to the end of the `if let` statement.
TaskRemove(s) ==
    /\ task[s].pc = "locked"
    /\ LET h == task[s].handle IN
       IF pool[h] # NoTask
       THEN /\ pool' = [pool EXCEPT ![h] = NoTask]
            /\ task' = [task EXCEPT ![s].pc = "removed", ![s].token = pool[h]]
            /\ lastOp' = Op("remove", h, TRUE, TRUE)
            /\ UNCHANGED mutex
       ELSE /\ task' = [task EXCEPT ![s] = IdleTask]
            /\ mutex' = NoTask
            /\ lastOp' = Op("remove", h, TRUE, FALSE)
            /\ UNCHANGED pool
    /\ UNCHANGED <<counter, poisoned, notified>>

\* The spawned async block, `notifier(handle, result)`.
TaskNotify(s) ==
    /\ task[s].pc = "removed"
    /\ task' = [task EXCEPT ![s].pc = "notified"]
    /\ notified' = [notified EXCEPT ![task[s].handle] = @ + 1]
    /\ lastOp' = Op("notify", task[s].handle, TRUE, FALSE)
    /\ UNCHANGED <<counter, pool, poisoned, mutex>>

\* The spawned async block, `token.forget()` and the end of the `if let`
\* statement, where the guard of the Mutex is released.
TaskForget(s) ==
    /\ task[s].pc = "notified"
    /\ task' = [task EXCEPT ![s] = IdleTask]
    /\ mutex' = NoTask
    /\ lastOp' = Op("forget", task[s].handle, TRUE, FALSE)
    /\ UNCHANGED <<counter, pool, poisoned, notified>>

\* Pool::default and the lazily created POOL.
InitFuture ==
    /\ counter = 0
    /\ pool = [h \in Handles |-> NoTask]
    /\ poisoned = FALSE
    /\ mutex = NoTask
    /\ task = [s \in Slots |-> IdleTask]
    /\ notified = [h \in Handles |-> 0]
    /\ lastOp = Op("init", 0, TRUE, FALSE)

NextFuture ==
    \/ \E s \in Slots : spawn(s) /\ UNCHANGED <<objectVars, returnedVars, compilerVars>>
    \/ \E h \in Handles : Java_riko_Future_cancel(h) /\ UNCHANGED <<objectVars, returnedVars, compilerVars>>
    \/ \E s \in Slots : TaskFinish(s) /\ UNCHANGED <<objectVars, returnedVars, compilerVars>>
    \/ \E s \in Slots : TaskDropped(s) /\ UNCHANGED <<objectVars, returnedVars, compilerVars>>
    \/ \E s \in Slots : TaskLock(s) /\ UNCHANGED <<objectVars, returnedVars, compilerVars>>
    \/ \E s \in Slots : TaskRemove(s) /\ UNCHANGED <<objectVars, returnedVars, compilerVars>>
    \/ \E s \in Slots : TaskNotify(s) /\ UNCHANGED <<objectVars, returnedVars, compilerVars>>
    \/ \E s \in Slots : TaskForget(s) /\ UNCHANGED <<objectVars, returnedVars, compilerVars>>

(***************************************************************************)
(* The handle pool of heap objects, runtime/src/object.rs.                 *)
(***************************************************************************)

Threads == 1..MaxThreads

\* An identifier stands for the address of an object.  The objects stored
\* under one handle take theirs from a range of their own.
ObjIds == 1..((MaxHandle - MinHandle + 1) * MaxObjects)

NoObj == 0

\* The Mutex of an object nobody holds, not poisoned: a new object, and the
\* value kept for an identifier that is not in use.
FreeObj == [holder |-> 0, poisoned |-> FALSE]

\* flag: the handle was in the map (store, drop, peek), the answer (alive),
\* the type matched (lock).
ObjOp(name, h, ok, flag) == [op |-> name, h |-> h, ok |-> ok, flag |-> flag]

Top(t) == stacks[t][Len(stacks[t])]

\* Thread t is outside the pool or inside an action, where it can call it.
CanCall(t) == IF stacks[t] = <<>> THEN TRUE ELSE Top(t).pc = "action"

\* The objects some Arc points to: those in the map and those cloned by the
\* peek calls in progress.
Live(p, st) ==
    ({p[h] : h \in Handles} \ {NoObj})
    \cup UNION {{st[t][i].obj : i \in 1..Len(st[t])} : t \in Threads}

\* The next state of the map, the peek calls and the objects.  Dropping the
\* last Arc of an object destroys it.
Commit(p, st, ob) ==
    /\ objPool' = p
    /\ stacks' = st
    /\ objects' = [o \in ObjIds |-> IF o \in Live(p, st) THEN ob[o] ELSE FreeObj]

\* The identifiers of the objects stored under h.
IdsOf(h) == ((h - MinHandle) * MaxObjects + 1)..((h - MinHandle + 1) * MaxObjects)

\* Arc::new: the first identifier of h that no Arc points to.
NewId(h) ==
    CHOOSE o \in IdsOf(h) \ Live(objPool, stacks) :
        \A q \in IdsOf(h) \ Live(objPool, stacks) : o <= q

\* AtomicI32::fetch_add always wraps around on overflow.
fetch_add(c) == IF c = MaxHandle THEN MinHandle ELSE c + 1

\* Pool::store: under the write lock, take the next handle from the counter
\* and insert the object under it.
Pool_store(t) ==
    /\ CanCall(t)
    /\ readers = {}
    /\ Cardinality(Live(objPool, stacks)) < MaxObjects
    /\ LET h == objCounter
           id == NewId(h)
       IN /\ objCounter' = fetch_add(objCounter)
          /\ Commit([objPool EXCEPT ![h] = id], stacks,
                    [objects EXCEPT ![id] = FreeObj])
          /\ objOp' = ObjOp("store", h, TRUE, objPool[h] # NoObj)
          /\ UNCHANGED readers

\* Pool::drop with `.remove(&handle).expect(..)`-like handling of the entry.
Pool_drop_Expect(t, h) ==
    /\ CanCall(t)
    /\ readers = {}
    /\ Commit([objPool EXCEPT ![h] = NoObj], stacks, objects)
    /\ objOp' = ObjOp("drop", h, objPool[h] # NoObj, objPool[h] # NoObj)
    /\ UNCHANGED <<objCounter, readers>>

\* Pool::drop taking the Mutex of the object before it removes the entry:
\* it waits for the action of a peek on the object.
Pool_drop_Locking(t, h) ==
    /\ CanCall(t)
    /\ readers = {}
    /\ IF objPool[h] = NoObj THEN TRUE ELSE objects[objPool[h]].holder = 0
    /\ Commit([objPool EXCEPT ![h] = NoObj], stacks, objects)
    /\ objOp' = ObjOp("drop", h, TRUE, objPool[h] # NoObj)
    /\ UNCHANGED <<objCounter, readers>>

\* Pool::drop: under the write lock, remove the entry if there is one.
Pool_drop(t, h) ==
    /\ CanCall(t)
    /\ readers = {}
    /\ Commit([objPool EXCEPT ![h] = NoObj], stacks, objects)
    /\ objOp' = ObjOp("drop", h, TRUE, objPool[h] # NoObj)
    /\ UNCHANGED <<objCounter, readers>>

\* Pool::alive answering from the counter instead of the map.
Pool_alive_Counter(t, h) ==
    /\ CanCall(t)
    /\ objOp' = ObjOp("alive", h, TRUE, h # objCounter)
    /\ UNCHANGED <<objCounter, objPool, objects, readers, stacks>>

\* Pool::alive: under a read lock, contains_key.
Pool_alive(t, h) ==
    /\ CanCall(t)
    /\ objOp' = ObjOp("alive", h, TRUE, objPool[h] # NoObj)
    /\ UNCHANGED <<objCounter, objPool, objects, readers, stacks>>

\* A panic unwinds every peek of the thread: the guards of the objects it
\* holds are dropped while panicking, which poisons their Mutex; more is
\* the object whose downcast failed.
Unwind(t, more, name, h, flag) ==
    /\ Commit(objPool, [stacks EXCEPT ![t] = <<>>],
              [o \in ObjIds |->
                  IF objects[o].holder = t \/ o \in more
                  THEN [holder |-> 0, poisoned |-> TRUE]
                  ELSE objects[o]])
    /\ readers' = {r \in readers : r[1] # t}
    /\ objOp' = ObjOp(name, h, FALSE, flag)
    /\ UNCHANGED objCounter

\* Pool::peek, `self.pool.read()` and `pool_guard[&handle].clone()`:
\* indexing a missing key panics.
PeekLookup(t, h) ==
    /\ CanCall(t)
    /\ Len(stacks[t]) < MaxDepth
    /\ IF objPool[h] = NoObj
       THEN Unwind(t, {}, "peek", h, FALSE)
       ELSE /\ Commit(objPool,
                      [stacks EXCEPT ![t] =
                          Append(@, [h |-> h, obj |-> objPool[h],
                                     stale |-> replaced[h], pc |-> "cloned"])],
                      objects)
            /\ readers' = readers \cup {<<t, Len(stacks[t]) + 1>>}
            /\ objOp' = ObjOp("peek", h, TRUE, TRUE)
            /\ UNCHANGED objCounter

\* Pool::peek keeping the read guard of the map until it returns.
PeekDropGuard_Kept(t) ==
    /\ stacks[t] # <<>>
    /\ Top(t).pc = "cloned"
    /\ stacks' = [stacks EXCEPT ![t][Len(stacks[t])].pc = "unlocked"]
    /\ objOp' = ObjOp("unguard", 0, TRUE, TRUE)
    /\ UNCHANGED <<objCounter, objPool, objects, readers>>

\* Pool::peek, `drop(pool_guard)`.
PeekDropGuard(t) ==
    /\ stacks[t] # <<>>
    /\ Top(t).pc = "cloned"
    /\ stacks' = [stacks EXCEPT ![t][Len(stacks[t])].pc = "unlocked"]
    /\ readers' = readers \ {<<t, Len(stacks[t])>>}
    /\ objOp' = ObjOp("unguard", 0, TRUE, TRUE)
    /\ UNCHANGED <<objCounter, objPool, objects>>

\* Pool::peek on objects kept as Arc<RwLock<..>> and read-locked: the peek
\* does not wait for the action of another peek on the object.
PeekLockObj_Shared(t, is_T) ==
    /\ stacks[t] # <<>>
    /\ Top(t).pc = "unlocked"
    /\ IF objects[Top(t).obj].poisoned
       THEN Unwind(t, {}, "lock", 0, is_T)
       ELSE IF ~is_T
       THEN Unwind(t, {Top(t).obj}, "lock", 0, FALSE)
       ELSE /\ stacks' = [stacks EXCEPT ![t][Len(stacks[t])].pc = "action"]
            /\ objects' = [objects EXCEPT ![Top(t).obj].holder = t]
            /\ objOp' = ObjOp("lock", 0, TRUE, TRUE)
            /\ UNCHANGED <<objCounter, objPool, readers>>

\* Pool::peek with an unchecked downcast.
PeekLockObj_Unchecked(t, is_T) ==
    /\ stacks[t] # <<>>
    /\ Top(t).pc = "unlocked"
    /\ objects[Top(t).obj].holder = 0
    /\ IF objects[Top(t).obj].poisoned
       THEN Unwind(t, {}, "lock", 0, is_T)
       ELSE /\ stacks' = [stacks EXCEPT ![t][Len(stacks[t])].pc = "action"]
            /\ objects' = [objects EXCEPT ![Top(t).obj].holder = t]
            /\ objOp' = ObjOp("lock", 0, TRUE, is_T)
            /\ UNCHANGED <<objCounter, objPool, readers>>

\* Pool::peek, `obj_arc.lock().expect(..)` and `obj.downcast_mut::<T>()`:
\* a poisoned Mutex and a wrong type both panic, the latter while the guard
\* of the object is held.  is_T: the object is of the type T the caller
\* asks for (the caller chooses T, so either answer is possible).
PeekLockObj(t, is_T) ==
    /\ stacks[t] # <<>>
    /\ Top(t).pc = "unlocked"
    /\ objects[Top(t).obj].holder = 0
    /\ IF objects[Top(t).obj].poisoned
       THEN Unwind(t, {}, "lock", 0, is_T)
       ELSE IF ~is_T
       THEN Unwind(t, {Top(t).obj}, "lock", 0, FALSE)
       ELSE /\ stacks' = [stacks EXCEPT ![t][Len(stacks[t])].pc = "action"]
            /\ objects' = [objects EXCEPT ![Top(t).obj].holder = t]
            /\ objOp' = ObjOp("lock", 0, TRUE, TRUE)
            /\ UNCHANGED <<objCounter, objPool, readers>>

\* Pool::peek returns the result of the action: the guard of the object and
\* the cloned Arc go out of scope.
PeekReturn(t) ==
    /\ stacks[t] # <<>>
    /\ Top(t).pc = "action"
    /\ Commit(objPool,
              [stacks EXCEPT ![t] = SubSeq(@, 1, Len(@) - 1)],
              [objects EXCEPT ![Top(t).obj].holder = 0])
    /\ readers' = readers \ {<<t, Len(stacks[t])>>}
    /\ objOp' = ObjOp("return", 0, TRUE, TRUE)
    /\ UNCHANGED objCounter

\* The values an object can hold.
Contents == 0..MaxContent

\* The action of a peek, `FnOnce(&mut T) -> R`, taken to be an increment of
\* the object.
Increment(v) == (v + 1) % (MaxContent + 1)

\* No action has run: every object holds its first value.
NoMemory ==
    [content |-> [o \in ObjIds |-> 0],
     mutated |-> [o \in ObjIds |-> 0],
     locals  |-> [t \in Threads |-> <<>>]]

\* Pool::default and the lazily created POOL.
InitObject ==
    /\ objCounter = 0
    /\ objPool = [h \in Handles |-> NoObj]
    /\ objects = [o \in ObjIds |-> FreeObj]
    /\ readers = {}
    /\ stacks = [t \in Threads |-> <<>>]
    /\ replaced = [h \in Handles |-> FALSE]
    /\ memory = NoMemory
    /\ objOp = ObjOp("init", 0, TRUE, FALSE)

\* History of the handles: a store that finds its handle in the map replaces
\* the object of a live handle; a drop of the handle ends that.
TrackReplaced ==
    replaced' = [h \in Handles |->
                    IF objOp'.op = "store" /\ objOp'.h = h THEN objOp'.flag
                    ELSE IF objOp'.op = "drop" /\ objOp'.h = h THEN FALSE
                    ELSE replaced[h]]

\* What a step of the handle pool leaves alone.
Untracked == UNCHANGED <<replaced, memory, futureVars, returnedVars, compilerVars>>

\* What a step of the handle pool with the history of the handles does
\* besides.
Tracked == TrackReplaced /\ UNCHANGED <<memory, futureVars, returnedVars, compilerVars>>

\* The operations of the handle pool, called from any thread.
NextObject ==
    \/ \E t \in Threads : Pool_store(t) /\ Untracked
    \/ \E t \in Threads, h \in Handles : Pool_drop(t, h) /\ Untracked
    \/ \E t \in Threads, h \in Handles : Pool_alive(t, h) /\ Untracked
    \/ \E t \in Threads, h \in Handles : PeekLookup(t, h) /\ Untracked
    \/ \E t \in Threads : PeekDropGuard(t) /\ Untracked
    \/ \E t \in Threads, is_T \in BOOLEAN : PeekLockObj(t, is_T) /\ Untracked
    \/ \E t \in Threads : PeekReturn(t) /\ Untracked

\* What the actions do to the objects.  An action reads the object through
\* `&mut T` when the peek has locked it (content to locals) and has written
\* the incremented value back when the peek returns; mutated counts the
\* actions that completed on the object.  A panic abandons the actions of
\* the thread, and an object no Arc points to is gone.
TrackMemory ==
    LET live == Live(objPool', stacks')
        returns(t) == objOp'.op = "return" /\ Len(stacks'[t]) < Len(stacks[t])
        locks(t) == /\ objOp'.op = "lock" /\ objOp'.ok
                    /\ stacks'[t] # stacks[t]
    IN memory' =
        [content |-> [o \in ObjIds |->
            IF o \notin live THEN 0
            ELSE IF \E t \in Threads : returns(t) /\ Top(t).obj = o
            THEN LET t == CHOOSE u \in Threads : returns(u) /\ Top(u).obj = o
                 IN Increment(memory.locals[t][Len(stacks[t])])
            ELSE memory.content[o]],
         mutated |-> [o \in ObjIds |->
            IF o \notin live THEN 0
            ELSE IF \E t \in Threads : returns(t) /\ Top(t).obj = o
            THEN Increment(memory.mutated[o])
            ELSE memory.mutated[o]],
         locals |-> [t \in Threads |->
            IF Len(stacks'[t]) < Len(stacks[t])
            THEN SubSeq(memory.locals[t], 1, Len(stacks'[t]))
            ELSE IF Len(stacks'[t]) > Len(stacks[t])
            THEN Append(memory.locals[t], 0)
            ELSE IF locks(t)
            THEN [memory.locals[t] EXCEPT ![Len(stacks[t])] =
                     memory.content[Top(t).obj]]
            ELSE memory.locals[t]]]

\* What a step of the handle pool with the contents of the objects does
\* besides.
Mutating == TrackMemory /\ UNCHANGED <<replaced, futureVars, returnedVars, compilerVars>>

\* The same operations, with the contents of the objects.
NextMutating ==
    \/ \E t \in Threads : Pool_store(t) /\ Mutating
    \/ \E t \in Threads, h \in Handles : Pool_drop(t, h) /\ Mutating
    \/ \E t \in Threads, h \in Handles : Pool_alive(t, h) /\ Mutating
    \/ \E t \in Threads, h \in Handles : PeekLookup(t, h) /\ Mutating
    \/ \E t \in Threads : PeekDropGuard(t) /\ Mutating
    \/ \E t \in Threads, is_T \in BOOLEAN : PeekLockObj(t, is_T) /\ Mutating
    \/ \E t \in Threads : PeekReturn(t) /\ Mutating

\* The same operations, with the history of the handles.
NextTracked ==
    \/ \E t \in Threads : Pool_store(t) /\ Tracked
    \/ \E t \in Threads, h \in Handles : Pool_drop(t, h) /\ Tracked
    \/ \E t \in Threads, h \in Handles : Pool_alive(t, h) /\ Tracked
    \/ \E t \in Threads, h \in Handles : PeekLookup(t, h) /\ Tracked
    \/ \E t \in Threads : PeekDropGuard(t) /\ Tracked
    \/ \E t \in Threads, is_T \in BOOLEAN : PeekLockObj(t, is_T) /\ Tracked
    \/ \E t \in Threads : PeekReturn(t) /\ Tracked

(***************************************************************************)
(* The envelope of a returned value, runtime-rust/src/returned.rs, and the *)
(* shelving of heap objects, runtime/src/object.rs.                        *)
(***************************************************************************)

\* Number of distinct payloads a raw result can carry.
MaxValue == 2

\* Number of Result/Option layers around the payload of a raw result.
MaxLayers == 2

\* The values of std::error::Error types: what `{:?}` and `to_string()`
\* print for them.
Errors ==
    {[dbg |-> "ParseIntError { kind: Empty }",
      msg |-> "cannot parse integer from empty string"],
     [dbg |-> "Custom(\"closed\")", msg |-> "closed"]}

None == [tag |-> "None"]

Some(x) == [tag |-> "Some", v |-> x]

Ok(x) == [tag |-> "Ok", v |-> x]

Err(e) == [tag |-> "Err", e |-> e]

\* A value that is neither an Option nor a Result.
Plain(x) == [tag |-> "T", v |-> x]

\* The types of raw results: the layers around T, outermost first.
Types ==
    UNION {[1..n -> {"Option", "Result"}] : n \in 0..MaxLayers}

RECURSIVE ValuesOf(_)
\* The values of a type.
ValuesOf(ty) ==
    IF ty = <<>>
    THEN {Plain(x) : x \in 1..MaxValue}
    ELSE IF Head(ty) = "Option"
    THEN {None} \cup {Some(v) : v \in ValuesOf(Tail(ty))}
    ELSE {Ok(v) : v \in ValuesOf(Tail(ty))} \cup {Err(e) : e \in Errors}

\* impl From<T: std::error::Error> for Error with the two texts exchanged.
Error_from_Swapped(e) == [debug |-> e.msg, message |-> e.dbg]

\* impl From<T: std::error::Error> for Error
Error_from(e) == [debug |-> e.dbg, message |-> e.msg]

\* impl From<Result<Option<T>, E>> for Returned<T>
Returned_from_result_option(src) ==
    IF src.tag = "Ok"
    THEN [error |-> None, value |-> src.v]
    ELSE [error |-> Some(Error_from(src.e)), value |-> None]

\* impl From<Result<T, E>> for Returned<T>
Returned_from_result(src) ==
    IF src.tag = "Ok"
    THEN [error |-> None, value |-> Some(src.v)]
    ELSE [error |-> Some(Error_from(src.e)), value |-> None]

\* impl From<Option<T>> for Returned<T>
Returned_from_option(src) == [error |-> None, value |-> src]

\* impl From<T> for Returned<T>
Returned_from(src) == [error |-> None, value |-> Some(src)]

\* Returned::default(): both fields absent.
Returned_default == [error |-> None, value |-> None]

\* The record of a call: the function, the raw result given to it, and a
\* bit that changes with every call.
Call(name, src) == [fn |-> name, src |-> src, seq |-> ~call.seq]

\* A conversion of returned.rs applied to a raw result: the pool is not
\* involved.
Convert(name, src, r) ==
    /\ call' = Call(name, src)
    /\ returned' = r
    /\ UNCHANGED <<objectVars, futureVars, compilerVars>>

\* What shelving does with a raw result: store the object, or return an
\* envelope without a handle.
Stored == [store |-> TRUE, returned |-> Returned_default]

Unstored(r) == [store |-> FALSE, returned |-> r]

RECURSIVE shelve(_)
\* Shelve::shelve: the impls for T: Object, Option<T: Shelve> and
\* Result<T: Shelve, E> call each other through the layers.
shelve(src) ==
    IF src.tag = "T" THEN Stored
    ELSE IF src.tag \in {"Some", "Ok"} THEN shelve(src.v)
    ELSE IF src.tag = "None" THEN Unstored(Returned_default)
    ELSE Unstored([error |-> Some(Error_from(src.e)), value |-> None])

\* Object::shelve_self
shelve_self(src) == Stored

\* Object::shelve_result
shelve_result(src) ==
    IF src.tag = "Ok" THEN shelve_self(src.v)
    ELSE Unstored([error |-> Some(Error_from(src.e)), value |-> None])

\* Object::shelve_option
shelve_option(src) ==
    IF src.tag = "Some" THEN shelve_self(src.v)
    ELSE Unstored(Returned_default)

\* Object::shelve_result_option
shelve_result_option(src) ==
    IF src.tag = "Err"
    THEN Unstored([error |-> Some(Error_from(src.e)), value |-> None])
    ELSE IF src.v.tag = "Some" THEN shelve_self(src.v.v)
    ELSE Unstored(Returned_default)

\* Shelving that puts the object into the pool but returns an empty envelope.
Shelved_NoHandle(t, name, src, o) ==
    /\ CanCall(t)
    /\ call' = Call(name, src)
    /\ IF o.store
       THEN /\ Pool_store(t)
            /\ returned' = Returned_default
            /\ UNCHANGED <<replaced, memory, futureVars, compilerVars>>
       ELSE /\ returned' = o.returned
            /\ UNCHANGED <<objectVars, futureVars, compilerVars>>

\* Thread t shelves a raw result: `POOL.store(self).into()` where the
\* layers end in an object, the envelope of the outcome otherwise.
Shelved(t, name, src, o) ==
    /\ CanCall(t)
    /\ call' = Call(name, src)
    /\ IF o.store
       THEN /\ Pool_store(t)
            /\ returned' = Returned_from(objCounter)
            /\ UNCHANGED <<replaced, memory, futureVars, compilerVars>>
       ELSE /\ returned' = o.returned
            /\ UNCHANGED <<objectVars, futureVars, compilerVars>>

\* impl IntoReturned<T> for Result<I, E>:
\* `self.map(|iter| POOL.store(ReturningIterator::new(iter))).into()`
IntoReturned_into(t, src) ==
    /\ CanCall(t)
    /\ call' = Call("IntoReturned::into", src)
    /\ IF src.tag = "Ok"
       THEN /\ Pool_store(t)
            /\ returned' = Returned_from_result(Ok(objCounter))
            /\ UNCHANGED <<replaced, memory, futureVars, compilerVars>>
       ELSE /\ returned' = Returned_from_result(src)
            /\ UNCHANGED <<objectVars, futureVars, compilerVars>>

\* The managed side closes the handle of an envelope it received.
Close(t, h) ==
    /\ Pool_drop(t, h)
    /\ UNCHANGED <<replaced, memory, futureVars, returnedVars, compilerVars>>

InitReturned ==
    /\ call = [fn |-> "none", src |-> None, seq |-> FALSE]
    /\ returned = Returned_default

\* A function of the bridge returns: its raw result becomes an envelope,
\* by conversion or, for a heap object, by shelving.
NextReturned ==
    \/ \E src \in ValuesOf(<<"Result", "Option">>) :
           Convert("From<Result<Option<T>, E>>", src,
                   Returned_from_result_option(src))
    \/ \E src \in ValuesOf(<<"Result">>) :
           Convert("From<Result<T, E>>", src, Returned_from_result(src))
    \/ \E src \in ValuesOf(<<"Option">>) :
           Convert("From<Option<T>>", src, Returned_from_option(src))
    \/ \E ty \in Types : \E src \in ValuesOf(ty) :
           Convert("From<T>", src, Returned_from(src))
    \/ \E t \in Threads, ty \in Types : \E src \in ValuesOf(ty) :
           Shelved(t, "Shelve::shelve", src, shelve(src))
    \/ \E t \in Threads : \E src \in ValuesOf(<<>>) :
           Shelved(t, "Object::shelve_self", src, shelve_self(src))
    \/ \E t \in Threads : \E src \in ValuesOf(<<"Result">>) :
           Shelved(t, "Object::shelve_result", src, shelve_result(src))
    \/ \E t \in Threads : \E src \in ValuesOf(<<"Option">>) :
           Shelved(t, "Object::shelve_option", src, shelve_option(src))
    \/ \E t \in Threads : \E src \in ValuesOf(<<"Result", "Option">>) :
           Shelved(t, "Object::shelve_result_option", src,
                   shelve_result_option(src))
    \/ \E t \in Threads : \E src \in ValuesOf(<<"Result">>) :
           IntoReturned_into(t, src)
    \/ \E t \in Threads, h \in Handles : Close(t, h)

(***************************************************************************)
(* The JNI writer, core/src/jni.rs, and the attribute macro's mangling,    *)
(* macros/src/jni/expand.rs.  Text is a sequence of characters.            *)
(***************************************************************************)

\* The text "Module".
MODULE_IDENT == <<"M", "o", "d", "u", "l", "e">>

\* The text "__riko_".
PREFIX_TEXT == <<"_", "_", "r", "i", "k", "o", "_">>

\* The text "Java_".
JAVA_ == <<"J", "a", "v", "a", "_">>

\* The text "_1_1Riko_1Module__1_1riko_1".
RIKO_MODULE_MANGLED ==
    <<"_", "1", "_", "1", "R", "i", "k", "o", "_", "1", "M", "o", "d", "u", "l", "e", "_", "_", "1", "_", "1", "r", "i", "k", "o", "_", "1">>

\* Number of segments in the path of a module.
MaxPath == 2

\* Identifiers of crates, modules and functions.
Idents ==
    {<<"a">>, <<"a", "_">>, <<"_", "a">>, MODULE_IDENT}

\* The paths of modules.
Paths == UNION {[1..n -> Idents] : n \in 0..MaxPath}

\* const CLASS_FOR_MODULE: &str = "Module"
CLASS_FOR_MODULE == MODULE_IDENT

\* const PREFIX_FOR_NATIVE: &str = "__riko_"
PREFIX_FOR_NATIVE == PREFIX_TEXT

RECURSIVE replace(_, _, _)
\* str::replace for a pattern of one character.
replace(str, from, to) ==
    IF str = <<>> THEN <<>>
    ELSE (IF Head(str) = from THEN to ELSE <<Head(str)>>)
         \o replace(Tail(str), from, to)

RECURSIVE join(_, _)
\* Itertools::join
join(strs, sep) ==
    IF strs = <<>> THEN <<>>
    ELSE IF Len(strs) = 1 THEN Head(strs)
    ELSE Head(strs) \o sep \o join(Tail(strs), sep)

\* mangle_function_name that escapes nothing.
mangle_function_name_Unescaped(name, module, crate_) ==
    JAVA_ \o join(<<crate_>> \o module, <<"_">>)
          \o <<"_">> \o MODULE_IDENT \o <<"_">> \o PREFIX_FOR_NATIVE \o name

\* mangle_function_name that puts the function's name before the prefix.
mangle_function_name_NameFirst(name, module, crate_) ==
    LET prefix ==
            join([i \in 1..(Len(module) + 1) |->
                     replace((<<crate_>> \o module)[i], "_", <<"_", "1">>)],
                 <<"_">>)
    IN JAVA_ \o prefix \o <<"_">> \o MODULE_IDENT \o <<"_">>
             \o replace(name, "_", <<"_", "1">>)
             \o replace(PREFIX_FOR_NATIVE, "_", <<"_", "1">>)

\* mangle_function_name: format_ident!("Java_{}_Module_{}{}", ..)
mangle_function_name(name, module, crate_) ==
    LET prefix ==
            join([i \in 1..(Len(module) + 1) |->
                     replace((<<crate_>> \o module)[i], "_", <<"_", "1">>)],
                 <<"_">>)
    IN JAVA_ \o prefix \o <<"_">> \o MODULE_IDENT \o <<"_">>
             \o replace(PREFIX_FOR_NATIVE, "_", <<"_", "1">>)
             \o replace(name, "_", <<"_", "1">>)

\* macros mangle_function:
\* format_ident!("Java_{}_1_1Riko_1Module__1_1riko_1{}", ..)
mangle_function(name, module) ==
    LET joined ==
            join([i \in 1..Len(module) |-> replace(module[i], "_", <<"_", "1">>)],
                 <<"_">>)
        module_mangled == IF joined = <<>> THEN joined ELSE joined \o <<"_">>
    IN JAVA_ \o module_mangled \o RIKO_MODULE_MANGLED
             \o replace(name, "_", <<"_", "1">>)

\* write_target_function: the native method declared for the function,
\* `private static native .. __riko_{name}( .. )`
write_target_function(f) == PREFIX_TEXT \o f.pubname

\* The functions of the IR, each with the path of its Module and the name
\* of its Crate.
Functions == [pubname : Idents, path : Paths, crate : Idents]

\* Nothing written yet.
NoTarget == [package |-> <<>>, class |-> <<>>, method |-> <<>>]

\* JniWriter::write_bridge_function: the name of the generated function.
write_bridge_function ==
    /\ bridge = <<>>
    /\ bridge' = mangle_function_name(function.pubname, function.path,
                                      function.crate)
    /\ UNCHANGED <<function, target, expanded, runtimeVars, inferVars, cfgVars>>

\* JniWriter::write_target_module that leaves the crate out of the package.
write_target_module_NoCrate ==
    /\ target = NoTarget
    /\ target' = [package |-> join(function.path, <<".">>),
                  class |-> CLASS_FOR_MODULE,
                  method |-> write_target_function(function)]
    /\ UNCHANGED <<function, bridge, expanded, runtimeVars, inferVars, cfgVars>>

\* JniWriter::write_target_module: the package is the crate's name and the
\* module's path joined by ".", the class is CLASS_FOR_MODULE, its body the
\* methods of write_target_function.
write_target_module ==
    /\ target = NoTarget
    /\ target' = [package |-> join(<<function.crate>> \o function.path, <<".">>),
                  class |-> CLASS_FOR_MODULE,
                  method |-> write_target_function(function)]
    /\ UNCHANGED <<function, bridge, expanded, runtimeVars, inferVars, cfgVars>>

\* macros expand::fun: the name of the generated function.
fun ==
    /\ expanded = <<>>
    /\ expanded' = mangle_function(function.pubname, function.path)
    /\ UNCHANGED <<function, bridge, target, runtimeVars, inferVars, cfgVars>>

NextWriter ==
    \/ write_bridge_function
    \/ write_target_module
    \/ fun

\* ---------------------------------------------------------------------
\* Marshaling rules: src/core/src/util.rs, src/core/src/ir.rs,
\* src/core/src/parse.rs, src/macros/src/parse.rs
\*
\* A type is the syntax tree syn gives: a Type::Path with its leading
\* colon, its segments and the generic arguments of its last segment, the
\* Type::Tuple `()`, or a Type::Reference.  A text is the sequence of its
\* words, the pieces between single spaces: to_token_stream().to_string()
\* puts one space between two tokens.

\* Layers of wrappers around a declared type.
MaxWrap == 2

\* syn::Path
TypePath(colon, segs, args) ==
    [kind |-> "Path", leading_colon |-> colon, segments |-> segs,
     arguments |-> args]

\* GenericArgument::Type
Arg(ty) == [binding |-> "", ty |-> ty]

\* GenericArgument::Binding
Binding(ident, ty) == [binding |-> ident, ty |-> ty]

\* Path { leading_colon: None, segments: Default::default() }
EmptyPath == TypePath(FALSE, <<>>, <<>>)

\* Type::Tuple without elements, `()`
UnitType == [kind |-> "Tuple"]

\* Type::Reference
Reference(ty) == [kind |-> "Reference", elem |-> ty]

\* ReturnType::Default
ReturnType_Default == [kind |-> "Default"]

\* A path without generic arguments.
Named(segs) == TypePath(FALSE, segs, <<>>)

\* Types that are not wrappers, as they are written in signatures.
Unwrapped ==
    {Named(<<"bool">>), Named(<<"i8">>), Named(<<"i32">>), Named(<<"i64">>),
     Named(<<"i63">>), Named(<<"usize">>),
     Named(<<"String">>), Named(<<"std", "string", "String">>),
     TypePath(TRUE, <<"std", "string", "String">>, <<>>),
     Named(<<"string", "String">>),
     Named(<<"ByteBuf">>), Named(<<"serde_bytes", "ByteBuf">>),
     TypePath(TRUE, <<"serde_bytes", "ByteBuf">>, <<>>),
     TypePath(FALSE, <<"Vec">>, <<Arg(Named(<<"u8">>))>>),
     Named(<<"org", "example", "Love">>),
     UnitType}

\* Option<T>
OptionOf(ty) == TypePath(FALSE, <<"Option">>, <<Arg(ty)>>)

\* Result<T, Error>
ResultOf(ty) ==
    TypePath(FALSE, <<"Result">>, <<Arg(ty), Arg(Named(<<"Error">>))>>)

\* std::sync::Arc<T>
ArcOf(ty) == TypePath(FALSE, <<"std", "sync", "Arc">>, <<Arg(ty)>>)

\* Future<Output = T>
FutureOf(ty) == TypePath(FALSE, <<"Future">>, <<Binding("Output", ty)>>)

RECURSIVE Layered(_)
\* The types with at most n layers of wrappers.
Layered(n) ==
    IF n = 0 THEN Unwrapped
    ELSE LET inner == Layered(n - 1)
         IN inner \cup {OptionOf(ty) : ty \in inner}
                  \cup {ResultOf(ty) : ty \in inner}
                  \cup {ArcOf(ty) : ty \in inner}
                  \cup {FutureOf(ty) : ty \in inner}

\* The declared types of parameters and return values.
DeclaredTypes ==
    Layered(MaxWrap) \cup {Reference(ty) : ty \in Layered(MaxWrap)}

\* A rule without a type, and the rules that carry the path of one.
Rule(name) == [name |-> name]

Struct(path) == [name |-> "Struct", path |-> path]

Serde(path) == [name |-> "Serde", path |-> path]

\* enum MarshalingRule of ir.rs
MarshalingRule ==
    {Rule("Bool"), Rule("Bytes"), Rule("I8"), Rule("I32"), Rule("I64"),
     Rule("Object"), Rule("Struct"), Rule("String"), Rule("Unit")}

\* enum MarshalingRule of the macro crate, without the rules that carry
\* a type.
macros_MarshalingRule ==
    {Rule("Bool"), Rule("Bytes"), Rule("I8"), Rule("I32"), Rule("I64"),
     Rule("Infer"), Rule("String")}

\* No `marshal` given: Option::None in ir.rs, MarshalingRule::Infer in
\* the macro crate.
NoRule == Rule("Infer")

\* syn::Error
SynError == [error |-> "syn::Error"]

\* Nothing parsed yet.
Unparsed == [by |-> "nothing"]

RECURSIVE type_to_string(_)
RECURSIVE segments_to_string(_)
\* to_token_stream().to_string() of a type
type_to_string(ty) ==
    IF ty.kind = "Tuple" THEN <<"(", ")">>
    ELSE IF ty.kind = "Reference" THEN <<"&">> \o type_to_string(ty.elem)
    ELSE (IF ty.leading_colon THEN <<"::">> ELSE <<>>)
         \o segments_to_string(ty)

\* path.segments.to_token_stream().to_string(): the segments separated by
\* `::`, the arguments of the last one between `<` and `>`, and no leading
\* colon.
segments_to_string(path) ==
    LET idents == join([i \in 1..Len(path.segments) |-> <<path.segments[i]>>],
                       <<"::">>)
        argument(a) ==
            IF a.binding = "" THEN type_to_string(a.ty)
            ELSE <<a.binding, "=">> \o type_to_string(a.ty)
        arguments ==
            join([i \in 1..Len(path.arguments) |-> argument(path.arguments[i])],
                 <<",">>)
    IN IF path.arguments = <<>> THEN idents
       ELSE idents \o <<"<">> \o arguments \o <<">">>

RECURSIVE trim(_)
\* str::trim: a text without the empty words at its ends.
trim(str) ==
    IF str = <<>> THEN str
    ELSE IF Head(str) = "" THEN trim(Tail(str))
    ELSE IF str[Len(str)] = "" THEN trim(SubSeq(str, 1, Len(str) - 1))
    ELSE str

\* candidate.join(" :: ")
join_colons(candidate) ==
    join([i \in 1..Len(candidate) |-> <<candidate[i]>>], <<"::">>)

\* str::starts_with for a prefix that ends with a space, that is with an
\* empty word.
starts_with(str, prefix) ==
    /\ Len(str) >= Len(prefix)
    /\ SubSeq(str, 1, Len(prefix) - 1) = SubSeq(prefix, 1, Len(prefix) - 1)

\* ["", "std", "string", "String"]
STRING_CANDIDATE == <<"", "std", "string", "String">>

\* ["", "serde_bytes", "ByteBuf"]
BYTEBUF_CANDIDATE == <<"", "serde_bytes", "ByteBuf">>

\* static WRAPPERS
WRAPPERS == {"Arc", "Option", "Result", "Future"}

\* util::assert_type_is_path: a path, or the empty path for `()`.
assert_type_is_path(src) ==
    IF src.kind = "Path" THEN src
    ELSE IF src.kind = "Tuple" THEN EmptyPath
    ELSE SynError

\* TypeLayerIter::next: the cursor left behind for the next layer.
TypeLayerIter_next(cursor) ==
    IF cursor.segments = <<>> \/ cursor.arguments = <<>> THEN SynError
    ELSE LET arg == cursor.arguments[1]
         IN IF arg.binding \in {"", "Output"}
            THEN assert_type_is_path(arg.ty)
            ELSE SynError

RECURSIVE unwrap_type(_)
\* util::unwrap_type: the first layer whose last segment is not one of
\* WRAPPERS, and the empty path when there is none.
unwrap_type(ty) ==
    IF ty.segments # <<>> /\ ty.segments[Len(ty.segments)] \notin WRAPPERS
    THEN ty
    ELSE LET cursor == TypeLayerIter_next(ty)
         IN IF cursor = SynError THEN EmptyPath ELSE unwrap_type(cursor)

\* `matches` of MarshalingRule::infer in ir.rs
ir_matches(candidate, raw) ==
    \/ raw = <<candidate[Len(candidate)]>>
    \/ raw = join_colons(Tail(candidate))
    \/ raw = trim(join_colons(candidate))

\* MarshalingRule::infer of ir.rs
MarshalingRule_infer(t) ==
    LET type_path_str == segments_to_string(t)
    IN IF type_path_str = <<"bool">> THEN Rule("Bool")
       ELSE IF type_path_str = <<"i32">> THEN Rule("I32")
       ELSE IF type_path_str = <<"i64">> THEN Rule("I64")
       ELSE IF type_path_str = <<"i8">> THEN Rule("I8")
       ELSE IF trim(type_path_str) = <<>> THEN Rule("Unit")
       ELSE IF ir_matches(STRING_CANDIDATE, type_path_str) THEN Rule("String")
       ELSE IF ir_matches(BYTEBUF_CANDIDATE, type_path_str) THEN Rule("Bytes")
       ELSE Rule("Struct")

\* Input::parse of a parameter of type ty that carries
\* `#[riko::marshal = ..]` or not.
Input_from(ty, args) ==
    LET borrow == ty.kind = "Reference"
        original_type ==
            IF borrow THEN assert_type_is_path(ty.elem)
            ELSE assert_type_is_path(ty)
    IN IF original_type = SynError THEN SynError
       ELSE LET unwrapped_type == unwrap_type(original_type)
            IN [rule |-> IF args # NoRule THEN args
                         ELSE MarshalingRule_infer(unwrapped_type),
                borrow |-> borrow,
                unwrapped_type |-> unwrapped_type]

\* Output::parse that consults the inference first.
Output_from_Inferred(sig, rule_hint) ==
    LET original_type ==
            IF sig = ReturnType_Default THEN EmptyPath
            ELSE assert_type_is_path(sig)
    IN IF original_type = SynError THEN SynError
       ELSE LET unwrapped_type == unwrap_type(original_type)
                inferred == MarshalingRule_infer(unwrapped_type)
            IN [rule |-> IF inferred # Rule("Struct") THEN inferred
                         ELSE IF rule_hint # NoRule THEN rule_hint
                         ELSE inferred,
                unwrapped_type |-> unwrapped_type]

\* Output::parse of a return type and the `marshal` of `#[riko::fun]`.
Output_from(sig, rule_hint) ==
    LET original_type ==
            IF sig = ReturnType_Default THEN EmptyPath
            ELSE assert_type_is_path(sig)
    IN IF original_type = SynError THEN SynError
       ELSE LET unwrapped_type == unwrap_type(original_type)
            IN [rule |-> IF rule_hint # NoRule THEN rule_hint
                         ELSE MarshalingRule_infer(unwrapped_type),
                unwrapped_type |-> unwrapped_type]

\* assert_type_is_path of parse.rs, in the core and in the macro crate:
\* only a Type::Path.
parse_assert_type_is_path(src) ==
    IF src.kind = "Path" THEN src ELSE SynError

\* The closure `matches` of Candidate::matches in parse.rs, which is all of
\* Candidate::Primitive(candidate).matches(raw)
Candidate_matches_one(raw, candidate) ==
    \/ raw = candidate
    \/ raw = <<"Option", "<">> \o candidate \o <<">">>
    \/ starts_with(raw, <<"Result", "<">> \o candidate \o <<",", "">>)
    \/ starts_with(raw, <<"Result", "<", "Option", "<">> \o candidate
                        \o <<">", ",", "">>)

\* Candidate::Struct(path).matches(raw)
Candidate_Struct_matches(path, raw) ==
    \/ Candidate_matches_one(raw, <<path[Len(path)]>>)
    \/ Candidate_matches_one(raw, join_colons(Tail(path)))
    \/ Candidate_matches_one(raw, trim(join_colons(path)))

\* MarshalingRule::infer of the core's parse.rs
parse_MarshalingRule_infer(t) ==
    LET type_path ==
            IF t.kind = "Reference" THEN parse_assert_type_is_path(t.elem)
            ELSE parse_assert_type_is_path(t)
    IN IF type_path = SynError THEN SynError
       ELSE LET type_path_str == segments_to_string(type_path)
            IN IF Candidate_matches_one(type_path_str, <<"bool">>)
               THEN Rule("Bool")
               ELSE IF Candidate_matches_one(type_path_str, <<"i32">>)
               THEN Rule("I32")
               ELSE IF Candidate_matches_one(type_path_str, <<"i64">>)
               THEN Rule("I64")
               ELSE IF Candidate_matches_one(type_path_str, <<"i8">>)
               THEN Rule("I8")
               ELSE IF Candidate_matches_one(type_path_str, <<"(", ")">>)
               THEN Rule("Unit")
               ELSE IF Candidate_Struct_matches(STRING_CANDIDATE, type_path_str)
               THEN Rule("String")
               ELSE IF Candidate_Struct_matches(BYTEBUF_CANDIDATE, type_path_str)
               THEN Rule("Bytes")
               ELSE Struct(type_path)

\* MarshalingRule::infer of the macro crate: self is left alone unless it
\* is MarshalingRule::Infer.
macros_MarshalingRule_infer(self, t) ==
    IF self # NoRule THEN self
    ELSE LET type_path ==
                 IF t.kind = "Reference" THEN parse_assert_type_is_path(t.elem)
                 ELSE parse_assert_type_is_path(t)
         IN IF type_path = SynError THEN SynError
            ELSE LET type_path_no_leading_colons == segments_to_string(type_path)
                 IN IF type_path_no_leading_colons = <<"bool">>
                    THEN Rule("Bool")
                    ELSE IF type_path_no_leading_colons = <<"i32">>
                    THEN Rule("I32")
                    ELSE IF type_path_no_leading_colons = <<"i63">>
                    THEN Rule("I64")
                    ELSE IF type_path_no_leading_colons = <<"i8">>
                    THEN Rule("I8")
                    ELSE IF type_path_no_leading_colons
                            \in {<<"std", "::", "string", "::", "String">>,
                                 <<"String">>}
                    THEN Rule("String")
                    ELSE IF type_path_no_leading_colons
                            \in {<<"std", "::", "vec", "::", "Vec", "<", "u8", ">">>,
                                 <<"Vec", "<", "u8", ">">>}
                    THEN Rule("Bytes")
                    ELSE Serde(type_path)

\* Function::parse, for one parameter: Input::parse
Input_parse ==
    /\ parsed = Unparsed
    /\ declared # ReturnType_Default
    /\ parsed' = [by |-> "Input::parse", item |-> Input_from(declared, marshal)]
    /\ UNCHANGED <<declared, marshal, runtimeVars, writerVars, cfgVars>>

\* Function::parse, for the return value: Output::parse
Output_parse ==
    /\ parsed = Unparsed
    /\ parsed' = [by |-> "Output::parse", item |-> Output_from(declared, marshal)]
    /\ UNCHANGED <<declared, marshal, runtimeVars, writerVars, cfgVars>>

\* parse::MarshalingRule::infer of the core
parse_infer ==
    /\ parsed = Unparsed
    /\ declared # ReturnType_Default
    /\ marshal = NoRule
    /\ parsed' = [by |-> "parse::infer",
                  item |-> parse_MarshalingRule_infer(declared)]
    /\ UNCHANGED <<declared, marshal, runtimeVars, writerVars, cfgVars>>

\* MarshalingRule::infer of the macro crate
macros_infer ==
    /\ parsed = Unparsed
    /\ declared # ReturnType_Default
    /\ marshal \in macros_MarshalingRule
    /\ parsed' = [by |-> "macros::infer",
                  item |-> macros_MarshalingRule_infer(marshal, declared)]
    /\ UNCHANGED <<declared, marshal, runtimeVars, writerVars, cfgVars>>

\* A signature item of type ty with the rule given for it, not parsed yet.
Declared(ty, rule) ==
    /\ declared = ty
    /\ marshal = rule
    /\ parsed = Unparsed

NextInfer ==
    \/ Input_parse
    \/ Output_parse
    \/ parse_infer
    \/ macros_infer

\* ---------------------------------------------------------------------
\* Conditional compilation: src/core/src/ir.rs
\*
\* A crate is written as a chain of modules, each inside the one before,
\* with one exported function in the innermost of them (in the root file
\* when there is no module).  Every module is written inline, `mod m { .. }`,
\* or in a file of its own, `mod m;`.

\* Modules around the function.
MaxNest == 2

\* An attribute: its path, its style and its tokens.
Attr(path, style, tokens) == [path |-> path, style |-> style, tokens |-> tokens]

\* `#[cfg(feature = "..")]` and `#![cfg(feature = "..")]`, written at
\* level k.
Cfg(style, feature, k) == Attr("cfg", style, <<feature, k>>)

\* `#[doc = ".."]`
DOC == Attr("doc", "Outer", <<>>)

\* `#[riko::fun]`
RIKO_FUN == Attr("riko :: fun", "Outer", <<>>)

\* The modules that can be written at level k: the attributes on the
\* `mod` item, the inner attributes of its body or of its file, and
\* whether it has a body.
WrittenModules(k) ==
    [ident : {"m"},
     outer : {<<>>, <<Cfg("Outer", "outer", k)>>,
              <<DOC, Cfg("Outer", "outer", k), Cfg("Outer", "other", k)>>},
     inner : {<<>>, <<Cfg("Inner", "inner", k)>>},
     inline : BOOLEAN]

\* The functions that can be written: the attributes before `fn` and the
\* inner attributes of its block.
WrittenFunctions ==
    [ident : {"function"},
     outer : {<<RIKO_FUN>>, <<Cfg("Outer", "function_outer", 0), RIKO_FUN>>},
     inner : {<<>>, <<Cfg("Inner", "function_inner", 0)>>}]

\* The crates that can be written.
Sources ==
    UNION {{[attrs |-> a, mods |-> m, function |-> f] :
               a \in {<<>>, <<Cfg("Inner", "crate", 0)>>},
               m \in {c \in [1..n -> UNION {WrittenModules(k) : k \in 1..n}] :
                         \A k \in 1..n : c[k] \in WrittenModules(k)},
               f \in WrittenFunctions} :
           n \in 0..MaxNest}

\* syn::ItemMod: attrs holds the attributes written on the item, followed
\* by the inner attributes of the body when the module has one.
ItemMod(m) ==
    [ident |-> m.ident,
     attrs |-> IF m.inline THEN m.outer \o m.inner ELSE m.outer,
     content |-> m.inline]

\* syn::File of a module written in a file of its own.
File(m) == [attrs |-> m.inner]

\* syn::ItemFn: attrs holds the attributes written on the item, followed
\* by the inner attributes of its block.
ItemFn(f) == [ident |-> f.ident, attrs |-> f.outer \o f.inner]

\* extract_cfg
extract_cfg(src) ==
    LET cfgs == SelectSeq(src, LAMBDA attr : attr.path = "cfg")
    IN [i \in 1..Len(cfgs) |->
           IF cfgs[i].style = "Inner"
           THEN [cfgs[i] EXCEPT !.style = "Outer"]
           ELSE cfgs[i]]

\* Function::parse: the name and the guards of the function.
Function_parse(item) ==
    [name |-> item.ident, cfg |-> extract_cfg(item.attrs)]

RECURSIVE parse_items(_, _, _)
\* Module::parse_items for the items at level k of the chain: the modules
\* parsed from the child module, then the module itself.  Module::parse_module
\* hands over module.attrs for a module with a body and the attributes of
\* the file for a module without.
parse_items(src, k, attrs) ==
    LET parse_module ==
            LET module == ItemMod(src.mods[k + 1])
            IN IF module.content
               THEN parse_items(src, k + 1, module.attrs)
               ELSE parse_items(src, k + 1, File(src.mods[k + 1]).attrs)
        functions ==
            IF k = Len(src.mods) THEN <<Function_parse(ItemFn(src.function))>>
            ELSE <<>>
    IN (IF k < Len(src.mods) THEN parse_module ELSE <<>>)
       \o <<[functions |-> functions,
             path |-> [i \in 1..k |-> src.mods[i].ident],
             cfg |-> extract_cfg(attrs)]>>

\* Crate::parse
Crate_parse_from(src) == [modules |-> parse_items(src, 0, src.attrs)]

\* Crate::modules_by_path: for every prefix of the path, the first module
\* with that path.
modules_by_path(root, path) ==
    [idx \in 1..Len(path) |->
        LET found == {i \in 1..Len(root.modules) :
                         root.modules[i].path = SubSeq(path, 1, idx)}
        IN root.modules[CHOOSE i \in found : \A j \in found : i <= j]]

RECURSIVE flat_map_cfg(_)
\* .flat_map(|m| m.cfg.iter())
flat_map_cfg(modules) ==
    IF modules = <<>> THEN <<>>
    ELSE Head(modules).cfg \o flat_map_cfg(Tail(modules))

\* Function::collect_cfg
collect_cfg_of(self, module, root) ==
    flat_map_cfg(modules_by_path(root, module.path)) \o self.cfg

\* No IR yet, and no guards collected yet.
NoCrate == [modules |-> <<>>]

Uncollected == [collected |-> FALSE]

\* Crate::parse
Crate_parse ==
    /\ ir = NoCrate
    /\ ir' = Crate_parse_from(source)
    /\ UNCHANGED <<source, collected, treeVars, runtimeVars, writerVars, inferVars>>

\* Function::collect_cfg for a function of a module of the crate.
collect_cfg ==
    /\ collected = Uncollected
    /\ \E i \in 1..Len(ir.modules) :
           \E j \in 1..Len(ir.modules[i].functions) :
               collected' =
                   [collected |-> TRUE,
                    path |-> ir.modules[i].path,
                    cfg |-> collect_cfg_of(ir.modules[i].functions[j],
                                           ir.modules[i], ir)]
    /\ UNCHANGED <<source, ir, treeVars, runtimeVars, writerVars, inferVars>>

\* The generator is given the crate src and has not read it yet.
Unread(src) ==
    /\ source = src
    /\ ir = NoCrate
    /\ collected = Uncollected

NextCfg ==
    \/ Crate_parse
    \/ collect_cfg

\* ---------------------------------------------------------------------
\* The module tree and the files behind it: src/core/src/ir.rs
\* (resolve_module_path, find_ignore_attribute, Module::parse_items,
\* Module::parse_module, Function::parse), src/core/src/lib.rs (bindgen)
\* and src/core/src/jni.rs (the names written for a function).
\*
\* A file path is the sequence of its components, a text the sequence of
\* its characters.  An item carries the place it is written at (its span),
\* which the log of the parser refers to.

\* Runs of bindgen over the same crate.
MaxPasses == 2

\* The text "src".
SRC == <<"s", "r", "c">>

\* The text "lib.rs".
LIB_RS == <<"l", "i", "b", ".", "r", "s">>

\* The text "mod.rs".
MOD_RS == <<"m", "o", "d", ".", "r", "s">>

\* The text ".rs".
RS == <<".", "r", "s">>

\* The text "crate".
CRATE == <<"c", "r", "a", "t", "e">>

\* bindgen's crate_name, crate_entry and output_directory.
CRATE_NAME == <<"p">>

CRATE_ENTRY == <<SRC, LIB_RS>>

OUTPUT_DIRECTORY == <<SRC>>

\* `#[riko::ignore]`
RIKO_IGNORE == Attr("riko :: ignore", "Outer", <<>>)

\* `#[path = ".."]` with the components of the path in the literal.
PATH(file) == Attr("path", "Outer", file)

\* `#[riko::fun(name = "..")]`
RIKO_FUN_NAME(name) == Attr("riko :: fun", "Outer", <<name>>)

\* syn::Item::Fn and syn::Item::Mod; content is None for `mod name;`.
Item_Fn(site, ident, attrs) ==
    [kind |-> "Fn", site |-> site, ident |-> ident, attrs |-> attrs]

Item_Mod(site, ident, attrs, content) ==
    [kind |-> "Mod", site |-> site, ident |-> ident, attrs |-> attrs,
     content |-> content]

\* What is at a file path: nothing, a file that is not Rust, or a source
\* file with its items.
NoFile == [file |-> "none"]

Garbage == [file |-> "garbage"]

SourceFile(items) == [file |-> "source", items |-> items]

\* Path::is_file
is_file(fs, path) == IF path \in DOMAIN fs THEN fs[path] # NoFile ELSE FALSE

\* PathBuf::pop, PathBuf::push, PathBuf::set_file_name and PathBuf::extend
\* on paths with a file name and relative arguments.
pop(path) == SubSeq(path, 1, Len(path) - 1)

push(path, component) == Append(path, component)

set_file_name(path, file_name) == push(pop(path), file_name)

extend(path, components) == path \o components

\* resolve_module_path with the directory entry tried before the sibling.
resolve_module_path_ModFirst(module_name_parent, file_path_parent, module_child, fs) ==
    LET attr == SelectSeq(module_child.attrs, LAMBDA a : a.path = "path")
        child == module_child.ident
        dir == IF module_name_parent.tag = "Some"
               THEN push(pop(file_path_parent), module_name_parent.v)
               ELSE pop(file_path_parent)
        result == push(push(dir, child), MOD_RS)
    IN IF attr # <<>>
       THEN extend(pop(file_path_parent), attr[1].tokens)
       ELSE IF is_file(fs, result) THEN result
            ELSE push(dir, child \o RS)

\* resolve_module_path
resolve_module_path(module_name_parent, file_path_parent, module_child, fs) ==
    LET attr == SelectSeq(module_child.attrs, LAMBDA a : a.path = "path")
        child == module_child.ident
    IN IF attr # <<>>
       THEN extend(pop(file_path_parent), attr[1].tokens)
       ELSE IF module_name_parent.tag = "Some"
       THEN LET result == push(set_file_name(file_path_parent,
                                             module_name_parent.v),
                               child \o RS)
            IN IF is_file(fs, result) THEN result
               ELSE push(set_file_name(result, child), MOD_RS)
       ELSE LET result == set_file_name(file_path_parent, child \o RS)
            IN IF is_file(fs, result) THEN result
               ELSE push(set_file_name(result, child), MOD_RS)

\* find_ignore_attribute comparing with "riko::ignore", which the spaced
\* text of the tokens never equals.
find_ignore_attribute_Unspaced(src) ==
    \E i \in 1..Len(src) : src[i].path = "riko::ignore"

\* find_ignore_attribute
find_ignore_attribute(src) ==
    \E i \in 1..Len(src) : src[i].path = "riko :: ignore"

\* Args::take_from for Fun: the arguments of the first `riko::fun`, if any.
Fun_take_from(attrs) ==
    LET found == SelectSeq(attrs, LAMBDA a : a.path = "riko :: fun")
    IN IF found = <<>> THEN None
       ELSE Some([name |-> IF found[1].tokens = <<>> THEN <<>>
                           ELSE found[1].tokens[1]])

\* Function::parse that never takes the name from the arguments.
Function_parse_args_Unnamed(item, args) ==
    [name |-> item.ident,
     pubname |-> item.ident,
     cfg |-> extract_cfg(item.attrs)]

\* Function::parse: the names and the guards of the function.
Function_parse_args(item, args) ==
    [name |-> item.ident,
     pubname |-> IF args.name = <<>> THEN item.ident ELSE args.name,
     cfg |-> extract_cfg(item.attrs)]

\* crate::Error, with the item the parser was at.
Error(file, source_, site) == [file |-> file, source |-> source_, site |-> site]

NoError == [source |-> "none"]

\* What the parser did about the file of a module.
Logged(op, site, file) == [op |-> op, site |-> site, file |-> file]

\* Result<Vec<Module>, crate::Error>, with the log of the parser.
Parsed(modules, log) ==
    [ok |-> TRUE, modules |-> modules, error |-> NoError, log |-> log]

Failed(error, log) ==
    [ok |-> FALSE, modules |-> <<>>, error |-> error, log |-> log]

RECURSIVE Module_parse_items(_, _, _, _, _, _)
RECURSIVE Module_parse_module(_, _, _, _)

\* Module::parse_items: the loop over the items, with the modules and the
\* functions gathered so far in acc; at the end of the items the module
\* itself is pushed after its child modules.
Module_parse_items(items, module_path, file_path, attrs, fs, acc) ==
    IF items = <<>>
    THEN Parsed(Append(acc.result,
                       [functions |-> acc.functions,
                        path |-> module_path,
                        cfg |-> extract_cfg(attrs)]),
                acc.log)
    ELSE LET item == Head(items)
             continue == Module_parse_items(Tail(items), module_path,
                                            file_path, attrs, fs, acc)
         IN IF item.kind = "Fn"
            THEN IF find_ignore_attribute(item.attrs) THEN continue
                 ELSE LET args == Fun_take_from(item.attrs)
                      IN IF args.tag = "None" THEN continue
                         ELSE Module_parse_items(
                                  Tail(items), module_path, file_path, attrs, fs,
                                  [acc EXCEPT !.functions =
                                      Append(@, Function_parse_args(item, args.v))])
            ELSE IF item.kind = "Mod"
            THEN IF find_ignore_attribute(item.attrs) THEN continue
                 ELSE LET parsed_module ==
                              Module_parse_module(item, module_path, file_path, fs)
                      IN IF ~parsed_module.ok
                         THEN Failed(parsed_module.error,
                                     acc.log \o parsed_module.log)
                         ELSE Module_parse_items(
                                  Tail(items), module_path, file_path, attrs, fs,
                                  [acc EXCEPT
                                      !.result = @ \o parsed_module.modules,
                                      !.log = @ \o parsed_module.log])
            ELSE continue

\* Nothing gathered yet.
NoItems == [result |-> <<>>, functions |-> <<>>, log |-> <<>>]

\* Module::parse_module: the path of the file is resolved first; a module
\* with a body is parsed from the parent's file, one without from its own
\* file, and a file that cannot be read or parsed is an error.
Module_parse_module(module, module_path_parent, file_path_parent, fs) ==
    LET module_path_child == Append(module_path_parent, module.ident)
        file_path_child ==
            resolve_module_path(
                IF module_path_parent = <<>> THEN None
                ELSE Some(module_path_parent[Len(module_path_parent)]),
                file_path_parent, module, fs)
        resolved == <<Logged("resolve", module.site, file_path_child)>>
        read == <<Logged("read", module.site, file_path_child)>>
    IN IF module.content.tag = "Some"
       THEN [Module_parse_items(module.content.v, module_path_child,
                                file_path_parent, module.attrs, fs, NoItems)
                EXCEPT !.log = resolved \o @]
       ELSE IF ~is_file(fs, file_path_child)
       THEN Failed(Error(file_path_parent, "ReadExternalModule", module.site),
                   resolved \o read)
       ELSE IF fs[file_path_child] = Garbage
       THEN Failed(Error(file_path_child, "Parse", module.site),
                   resolved \o read)
       ELSE [Module_parse_items(fs[file_path_child].items, module_path_child,
                                file_path_child, <<>>, fs, NoItems)
                EXCEPT !.log = resolved \o read \o @]

\* Crate::parse of the file src.
Crate_parse_file(src, name, fs) ==
    IF ~is_file(fs, src)
    THEN Failed(Error(src, "ReadSource", 0), <<>>)
    ELSE IF fs[src] = Garbage
    THEN Failed(Error(src, "Parse", 0), <<>>)
    ELSE Module_parse_items(fs[src].items, <<>>, src, <<>>, fs, NoItems)

\* full_function_name: `crate :: #(#prefix)::*`, segment by segment.
full_function_name(name, module) == <<CRATE>> \o module \o <<name>>

\* JniWriter::write_bridge_function and write_target_function for a
\* function of the IR: the symbol of the bridge function, the function it
\* calls, and the native and public methods of the managed side.
JniWriter_write_bridge_function(function_, module, root) ==
    [symbol |-> mangle_function_name(function_.pubname, module.path, root.name),
     invocation |-> full_function_name(function_.name, module.path),
     native |-> write_target_function(function_),
     method |-> function_.pubname,
     cfg |-> collect_cfg_of(function_, module, root)]

RECURSIVE write_bridge_all(_, _)
\* TargetCodeWriter::write_bridge_all: every function of every module, in
\* the order of the IR; modules are those still to be written.
write_bridge_all(root, modules) ==
    IF modules = <<>> THEN <<>>
    ELSE [j \in 1..Len(Head(modules).functions) |->
             JniWriter_write_bridge_function(Head(modules).functions[j],
                                             Head(modules), root)]
         \o write_bridge_all(root, Tail(modules))

\* The bridge file: one `extern "C"` function per bridge function, under
\* the guards collected for it.
BridgeFile(written) ==
    SourceFile([j \in DOMAIN written |->
                   Item_Fn(0, written[j].symbol, written[j].cfg)])

\* Crate::parse has not run.
NotScanned == Parsed(<<>>, <<>>)

\* bindgen: the bridge file is deleted, the crate is parsed from its entry
\* and, if that succeeds, the bridge functions are written to the bridge
\* file.
bindgen ==
    /\ passes < MaxPasses
    /\ LET bridge_path == push(OUTPUT_DIRECTORY, CRATE_NAME \o RS)
           removed == [files EXCEPT ![bridge_path] = NoFile]
           crate_ir == Crate_parse_file(CRATE_ENTRY, CRATE_NAME, removed)
           root == [modules |-> crate_ir.modules, name |-> CRATE_NAME]
           written == IF crate_ir.ok
                      THEN write_bridge_all(root, root.modules)
                      ELSE <<>>
       IN /\ scanned' = crate_ir
          /\ generated' = written
          /\ files' = IF crate_ir.ok
                      THEN [removed EXCEPT ![bridge_path] = BridgeFile(written)]
                      ELSE removed
    /\ passes' = passes + 1
    /\ UNCHANGED <<source, ir, collected, runtimeVars, writerVars, inferVars>>

NextBindgen == bindgen

\* The functions that can be written at a place under an identifier:
\* exported, exported under another name, exported but ignored, and not
\* exported.
WrittenFns(site, ident) ==
    {Item_Fn(site, ident, <<RIKO_FUN>>),
     Item_Fn(site, ident, <<RIKO_FUN_NAME(<<"g", "_">>)>>),
     Item_Fn(site, ident, <<RIKO_IGNORE, RIKO_FUN>>),
     Item_Fn(site, ident, <<>>)}

\* The first module of the crate root, `mod m`: with or without a path
\* attribute, ignored or not, written as `mod m;`, with a body holding a
\* function, or with a body holding a function and `mod c;`.
FirstModules(guard) ==
    {Item_Mod(1, <<"m">>, guard \o path \o ignore, content) :
        path \in {<<>>, <<PATH(<< <<"q">> \o RS >>)>>,
                  <<PATH(<< CRATE_NAME \o RS >>)>>},
        ignore \in {<<>>, <<RIKO_IGNORE>>},
        content \in {None,
                     Some(<<Item_Fn(11, <<"f">>, <<RIKO_FUN>>)>>),
                     Some(<<Item_Fn(11, <<"f">>, <<RIKO_FUN>>),
                            Item_Mod(12, <<"c">>, <<>>, None)>>)}}

\* The second module of the crate root, with a body holding a function.
SecondModules(ident, guard) ==
    {Item_Mod(2, ident, guard, Some(<<h>>)) :
        h \in WrittenFns(21, <<"h">>) \ {Item_Fn(21, <<"h">>, <<>>)}}

\* The crate roots that can be written: two modules and a function.  The
\* modules have different names, or the same name under guards that
\* exclude each other.
WrittenRoots ==
    {<<a, b, r>> : a \in FirstModules(<<>>),
                  b \in SecondModules(<<"n">>, <<>>),
                  r \in WrittenFns(3, <<"r">>)}
    \cup
    {<<a, b, r>> : a \in FirstModules(<<Cfg("Outer", "unix", 1)>>),
                  b \in SecondModules(<<"m">>, <<Cfg("Outer", "windows", 1)>>),
                  r \in WrittenFns(3, <<"r">>)}

\* A source file holding one exported function.
FileOf(site, ident) == SourceFile(<<Item_Fn(site, ident, <<RIKO_FUN>>)>>)

\* The files of a crate: its entry with the items root, and what is at
\* src/m.rs, src/m/mod.rs, src/q.rs, the bridge file and src/m/c.rs.
Files(root, m_rs, m_mod_rs, q_rs, bridge_rs, m_c_rs) ==
    (CRATE_ENTRY :> SourceFile(root))
    @@ (<<SRC, <<"m">> \o RS>> :> m_rs)
    @@ (<<SRC, <<"m">>, MOD_RS>> :> m_mod_rs)
    @@ (<<SRC, <<"q">> \o RS>> :> q_rs)
    @@ (<<SRC, CRATE_NAME \o RS>> :> bridge_rs)
    @@ (<<SRC, <<"m">>, <<"c">> \o RS>> :> m_c_rs)

\* The crates on disk that bindgen can be given.
WrittenCrates ==
    {Files(root, m_rs, m_mod_rs, q_rs, bridge_rs, m_c_rs) :
        root \in WrittenRoots,
        m_rs \in {NoFile, Garbage, FileOf(101, <<"x">>)},
        m_mod_rs \in {NoFile, FileOf(102, <<"y">>)},
        q_rs \in {NoFile, FileOf(103, <<"z">>)},
        bridge_rs \in {NoFile, BridgeFile(<<>>)},
        m_c_rs \in {NoFile, FileOf(104, <<"w">>)}}

\* bindgen is given the crate fs and has not run yet.
Unscanned(fs) ==
    /\ files = fs
    /\ scanned = NotScanned
    /\ generated = <<>>
    /\ passes = 0

\* A crate with an empty entry file for the specifications that are about
\* something else.
SAMPLE_FILES == Files(<<>>, NoFile, NoFile, NoFile, NoFile, NoFile)

\* The writer is given Function f and has written nothing for it yet.
Unwritten(f) ==
    /\ function = f
    /\ bridge = <<>>
    /\ target = NoTarget
    /\ expanded = <<>>

\* A function, a signature item and a crate for the specifications that
\* are about something else.
SAMPLE_FUNCTION == [pubname |-> <<"a">>, path |-> <<>>, crate |-> <<"a">>]

SAMPLE_TYPE == Named(<<"bool">>)

SAMPLE_SOURCE ==
    [attrs |-> <<>>, mods |-> <<>>,
     function |-> [ident |-> "function", outer |-> <<RIKO_FUN>>, inner |-> <<>>]]

\* The runtime after construction.
InitRuntime ==
    /\ InitFuture
    /\ InitObject
    /\ InitReturned

\* JniWriter and the macro, given any Function of any Module of any Crate.
InitWriter ==
    /\ InitRuntime
    /\ \E f \in Functions : Unwritten(f)
    /\ Declared(SAMPLE_TYPE, NoRule)
    /\ Unread(SAMPLE_SOURCE)
    /\ Unscanned(SAMPLE_FILES)

\* The parser, given any signature item with or without a rule.
InitInfer ==
    /\ InitRuntime
    /\ Unwritten(SAMPLE_FUNCTION)
    /\ \E ty \in DeclaredTypes \cup {ReturnType_Default} :
           \E rule \in MarshalingRule \cup {NoRule} : Declared(ty, rule)
    /\ Unread(SAMPLE_SOURCE)
    /\ Unscanned(SAMPLE_FILES)

\* The parser, given any crate.
InitCfg ==
    /\ InitRuntime
    /\ Unwritten(SAMPLE_FUNCTION)
    /\ Declared(SAMPLE_TYPE, NoRule)
    /\ \E src \in Sources : Unread(src)
    /\ Unscanned(SAMPLE_FILES)

\* bindgen, given any crate on disk.
InitBindgen ==
    /\ InitRuntime
    /\ Unwritten(SAMPLE_FUNCTION)
    /\ Declared(SAMPLE_TYPE, NoRule)
    /\ Unread(SAMPLE_SOURCE)
    /\ \E fs \in WrittenCrates : Unscanned(fs)

Init ==
    /\ InitRuntime
    /\ Unwritten(SAMPLE_FUNCTION)
    /\ Declared(SAMPLE_TYPE, NoRule)
    /\ Unread(SAMPLE_SOURCE)
    /\ Unscanned(SAMPLE_FILES)

SpecFuture == Init /\ [][NextFuture]_vars

SpecObject == Init /\ [][NextObject]_vars

SpecTracked == Init /\ [][NextTracked]_vars

SpecMutating == Init /\ [][NextMutating]_vars

SpecReturned == Init /\ [][NextReturned]_vars

SpecWriter == InitWriter /\ [][NextWriter]_vars

SpecInfer == InitInfer /\ [][NextInfer]_vars

SpecCfg == InitCfg /\ [][NextCfg]_vars

SpecBindgen == InitBindgen /\ [][NextBindgen]_vars

\* C1: between two returns of the same handle h by spawn, notifier(h, ..) is
\* invoked at most once, whatever cancel(h) calls race the completion step.
NoDoubleNotification == \A h \in Handles : notified[h] <= 1

\* C1 witness: the notifier fired once for h and a cancel(h) call came too.
NotifiedAndCancelCalled ==
    /\ lastOp.op = "cancel"
    /\ notified[lastOp.h] = 1

\* C2: once cancel(h) has removed the tracking entry of a task, that task
\* never invokes the notifier afterwards, even if its output was already
\* computed when the cancel came.
CancelWins ==
    \A s \in Slots : task[s].pc = "notified" => ~task[s].cancelled

SpawnReturnsFreshHandle ==
    (lastOp.op = "spawn" /\ lastOp.ok) => ~lastOp.present

\* C4 witness: spawn returned the first handle after the wrap of the counter
\* while an older handle was still tracked.
SpawnAfterWrap ==
    /\ lastOp.op = "spawn"
    /\ lastOp.ok
    /\ lastOp.h = MinHandle
    /\ \E g \in Handles : g # lastOp.h /\ pool[g] # NoTask

\* The peek calls whose action is running.
ActionFrames(st) ==
    {<<t, i>> : t \in Threads, i \in 1..MaxDepth} \cap
    UNION {{<<t, i>> : i \in {j \in 1..Len(st[t]) : st[t][j].pc = "action"}} :
           t \in Threads}

\* C5: the action of peek(h, ..) runs against the object of the store that
\* returned h, as long as h has not been dropped since.
PeekSeesStoredObject ==
    \A t \in Threads : \A i \in 1..Len(stacks[t]) :
        stacks[t][i].pc = "action" => ~stacks[t][i].stale

\* C6: alive(h) answers whether h is in the map; h enters the map only when
\* store returns h and stays until drop(h), and after drop(h) it is out of
\* the map until store returns h again.
AliveFromStoreToDrop ==
    /\ [](objOp.op = "alive" => (objOp.flag <=> objPool[objOp.h] # NoObj))
    /\ [][\A h \in Handles :
            /\ (objOp'.op = "store" /\ objOp'.h = h) => objPool'[h] # NoObj
            /\ (objOp'.op = "drop" /\ objOp'.h = h) => objPool'[h] = NoObj
            /\ (objPool[h] # NoObj /\ objPool'[h] = NoObj)
                  => (objOp'.op = "drop" /\ objOp'.h = h)
            /\ (objPool[h] = NoObj /\ objPool'[h] # NoObj)
                  => (objOp'.op = "store" /\ objOp'.h = h)]_vars

\* C6 witness: alive answered false for handle 0 after it had been stored
\* and dropped.
AliveFalseAfterDrop ==
    /\ objOp.op = "alive"
    /\ objOp.h = 0
    /\ ~objOp.flag
    /\ objCounter # 0

\* C7: drop(h) does not panic and touches no entry but that of h; on a
\* handle that is not in the map it changes nothing at all.
DropIsIdempotent ==
    [][objOp'.op = "drop"
          => /\ objOp'.ok
             /\ objPool'[objOp'.h] = NoObj
             /\ \A g \in Handles \ {objOp'.h} : objPool'[g] = objPool[g]
             /\ ~objOp'.flag
                   => /\ objPool' = objPool
                      /\ objects' = objects
                      /\ stacks' = stacks
                      /\ readers' = readers
                      /\ objCounter' = objCounter]_vars

\* C7 witness: handle 0 had been stored and dropped, and a second drop(0)
\* found nothing while another handle was alive.
DropOfDroppedHandle ==
    /\ objOp.op = "drop"
    /\ objOp.h = 0
    /\ ~objOp.flag
    /\ objOp.ok
    /\ \E g \in Handles : objPool[g] # NoObj

\* C8: peek on a handle that is not in the map, or on an object that is not
\* of the requested type, panics and starts no action; an action starts only
\* when the lookup found the handle and the downcast succeeded.
PeekMisuseIsFatal ==
    [][/\ (objOp'.op \in {"peek", "lock"} /\ ~objOp'.flag)
             => /\ ~objOp'.ok
                /\ ActionFrames(stacks') \subseteq ActionFrames(stacks)
       /\ ~(ActionFrames(stacks') \subseteq ActionFrames(stacks))
             => (objOp'.op = "lock" /\ objOp'.ok /\ objOp'.flag)]_vars

\* C8 witness: a peek panicked on an object of another type, which poisoned
\* the Mutex of the object.
PeekPanickedOnType ==
    /\ objOp.op = "lock"
    /\ ~objOp.ok
    /\ ~objOp.flag
    /\ \E o \in ObjIds : objects[o].poisoned

\* Thread t waits for the Mutex of an object another peek holds.
Waiting(t) ==
    IF stacks[t] = <<>> THEN FALSE
    ELSE Top(t).pc = "unlocked" /\ objects[Top(t).obj].holder # 0

\* Threads t and u wait for the object the other one holds.
Deadlocked(t, u) ==
    /\ t # u
    /\ Waiting(t)
    /\ Waiting(u)
    /\ objects[Top(t).obj].holder = u
    /\ objects[Top(u).obj].holder = t

\* C9 as stated: an action that peeks a different handle never deadlocks.
NestedPeekNeverDeadlocks ==
    \A t \in Threads, u \in Threads :
        (/\ Len(stacks[t]) = 2
         /\ stacks[t][1].h # stacks[t][2].h
         /\ Len(stacks[u]) = 2
         /\ stacks[u][1].h # stacks[u][2].h)
            => ~Deadlocked(t, u)

\* C9 amended: the read guard of the map is held only between the lookup and
\* `drop(pool_guard)`, never while a peek waits for an object or runs its
\* action, so store, alive, drop and the lookup of a peek wait for no action.
MapLockNotHeldInAction ==
    \A r \in readers :
        /\ r[2] = Len(stacks[r[1]])
        /\ stacks[r[1]][r[2]].pc = "cloned"

\* C9 witness: a store completed while the action of a peek was running.
StoreDuringAction ==
    /\ objOp.op = "store"
    /\ ActionFrames(stacks) # {}
    /\ readers = {}

\* C10: store never returns a handle that is still in the map.
StoreReturnsUnusedHandle ==
    objOp.op = "store" => ~objOp.flag

\* The conversions of returned.rs.
Conversions ==
    {"From<Result<Option<T>, E>>", "From<Result<T, E>>", "From<Option<T>>",
     "From<T>"}

\* The envelope with a value and no error.
Success(x) == [error |-> None, value |-> Some(x)]

\* The envelope with neither a value nor an error.
Empty == [error |-> None, value |-> None]

\* The envelope with the debug and display texts of e and no value.
Failure(e) ==
    [error |-> Some([debug |-> e.dbg, message |-> e.msg]), value |-> None]

\* C11: plain x, Some(x), Ok(x) and Ok(Some(x)) become {value: x}; None and
\* Ok(None) become the envelope with both fields absent; Err(e) becomes
\* {error: {debug, message}} with the debug and display texts of e; no
\* conversion gives an envelope with both a value and an error.
EnvelopeConstruction ==
    call.fn \in Conversions =>
        /\ returned.error.tag = "None" \/ returned.value.tag = "None"
        /\ call.fn = "From<T>" => returned = Success(call.src)
        /\ (call.fn # "From<T>" /\ call.src.tag = "None") => returned = Empty
        /\ (call.fn # "From<T>" /\ call.src.tag = "Err")
              => returned = Failure(call.src.e)
        /\ (call.fn = "From<Option<T>>" /\ call.src.tag = "Some")
              => returned = Success(call.src.v)
        /\ (call.fn = "From<Result<T, E>>" /\ call.src.tag = "Ok")
              => returned = Success(call.src.v)
        /\ (call.fn = "From<Result<Option<T>, E>>" /\ call.src.tag = "Ok")
              => IF call.src.v.tag = "Some"
                 THEN returned = Success(call.src.v.v)
                 ELSE returned = Empty

\* C11 witness: an Err(e) whose debug and display texts differ was converted
\* from a Result<Option<T>, E>.
ErrConverted ==
    /\ call.fn = "From<Result<Option<T>, E>>"
    /\ call.src.tag = "Err"
    /\ returned.error.tag = "Some"
    /\ returned.error.v.debug # returned.error.v.message

\* The functions that shelve a heap object.
Shelvers ==
    {"Shelve::shelve", "Object::shelve_self", "Object::shelve_result",
     "Object::shelve_option", "Object::shelve_result_option",
     "IntoReturned::into"}

RECURSIVE Innermost(_)
\* What is left of a raw result below its Ok and Some layers.
Innermost(src) ==
    IF src.tag \in {"Ok", "Some"} THEN Innermost(src.v) ELSE src

\* C12: shelving a raw result that carries an object performs exactly one
\* store and returns the new handle, alive, with no error; shelving None,
\* Ok(None) or Err(e) performs no store and leaves the pool unchanged, and
\* returns both fields absent, or the error of e without a value.
ShelvingStoresOnce ==
    [][(call'.seq # call.seq /\ call'.fn \in Shelvers)
          => LET src == Innermost(call'.src) IN
             IF src.tag = "T"
             THEN /\ returned' = Success(objCounter)
                  /\ objCounter' = fetch_add(objCounter)
                  /\ objPool'[objCounter] # NoObj
                  /\ objOp'.op = "store"
                  /\ \A g \in Handles \ {objCounter} : objPool'[g] = objPool[g]
             ELSE /\ returned' = (IF src.tag = "None" THEN Empty
                                  ELSE Failure(src.e))
                  /\ objPool' = objPool
                  /\ objCounter' = objCounter
                  /\ objects' = objects]_vars

\* C12 witness: an object under Ok(Some(..)) was shelved while another
\* handle was alive, and the handle in the envelope is alive.
ShelvedThroughLayers ==
    /\ call.fn = "Shelve::shelve"
    /\ call.src.tag = "Ok"
    /\ call.src.v.tag = "Some"
    /\ call.src.v.v.tag = "T"
    /\ returned.value.tag = "Some"
    /\ objPool[returned.value.v] # NoObj
    /\ \E g \in Handles \ {returned.value.v} : objPool[g] # NoObj

\* The texts of the formula and of the example.
JAVA_TEXT == <<"J", "a", "v", "a", "_">>

SEPARATED_MODULE_TEXT == <<"_", "M", "o", "d", "u", "l", "e", "_">>

ESCAPED_PREFIX_TEXT == <<"_", "1", "_", "1", "r", "i", "k", "o", "_", "1">>

FUNCTION_TEXT == <<"f", "u", "n", "c", "t", "i", "o", "n">>

UTIL_TEXT == <<"u", "t", "i", "l">>

UNIX_TEXT == <<"u", "n", "i", "x">>

RIKO_SAMPLE_TEXT == <<"r", "i", "k", "o", "_", "s", "a", "m", "p", "l", "e">>

EXAMPLE_SYMBOL_TEXT ==
    <<"J", "a", "v", "a", "_", "r", "i", "k", "o", "_", "1", "s", "a", "m", "p", "l", "e", "_", "u", "t", "i", "l", "_", "u", "n", "i", "x", "_",
      "M", "o", "d", "u", "l", "e", "_", "_", "1", "_", "1", "r", "i", "k", "o", "_", "1", "f", "u", "n", "c", "t", "i", "o", "n">>

RECURSIVE Escaped(_)
\* E: the text with every underscore replaced by "_1".
Escaped(str) ==
    IF str = <<>> THEN <<>>
    ELSE Escaped(SubSeq(str, 1, Len(str) - 1))
         \o (IF str[Len(str)] = "_" THEN <<"_", "1">> ELSE <<str[Len(str)]>>)

RECURSIVE EscapedSegments(_)
\* "_" + E(m) for each segment m of a path, in path order.
EscapedSegments(path) ==
    IF path = <<>> THEN <<>>
    ELSE <<"_">> \o Escaped(Head(path)) \o EscapedSegments(Tail(path))

\* C13: the symbol is "Java_" + E(crate) + ("_" + E(m) for each segment m of
\* the module path) + "_Module_" + "_1_1riko_1" + E(name); crate riko_sample,
\* path [util, unix], name function give
\* Java_riko_1sample_util_unix_Module__1_1riko_1function.
MangleFormula ==
    /\ bridge # <<>>
          => bridge = JAVA_TEXT \o Escaped(function.crate)
                      \o EscapedSegments(function.path)
                      \o SEPARATED_MODULE_TEXT \o ESCAPED_PREFIX_TEXT
                      \o Escaped(function.pubname)
    /\ mangle_function_name(FUNCTION_TEXT, <<UTIL_TEXT, UNIX_TEXT>>,
                            RIKO_SAMPLE_TEXT)
          = EXAMPLE_SYMBOL_TEXT

\* C13 witness: a symbol was written for a function in a module two segments
\* deep, with underscores in the crate's and the function's name.
MangledWithPath ==
    /\ bridge # <<>>
    /\ Len(function.path) = 2
    /\ function.crate = <<"a", "_">>
    /\ function.pubname = <<"_", "a">>

\* The symbol of every function, by the writer's mangling.
SymbolOf ==
    [f \in Functions |-> mangle_function_name(f.pubname, f.path, f.crate)]

\* The symbol of every function, by the macro's mangling.
ExpandedOf ==
    [m \in Paths, n \in Idents |-> mangle_function(n, m)]

\* C14: no other (package, module path, function name) has the symbol of
\* the function written, by the writer's mangling or by the macro's, and
\* writing the same function again gives the same symbol.
MangleInjective ==
    /\ bridge # <<>>
          => /\ bridge = SymbolOf[function]
             /\ \A f \in Functions : SymbolOf[f] = bridge => f = function
    /\ expanded # <<>>
          => /\ expanded = ExpandedOf[function.path, function.pubname]
             /\ \A m \in Paths, n \in Idents :
                    ExpandedOf[m, n] = expanded
                        => (m = function.path /\ n = function.pubname)

\* C14 witness: a symbol was written for crate "a_" and path ["a"], which
\* without the escaping would be the symbol of crate "a" and path ["_a"].
MangledAmbiguousPair ==
    /\ bridge # <<>>
    /\ expanded # <<>>
    /\ function.crate = <<"a", "_">>
    /\ function.path = <<<<"a">>>>

RECURSIVE Flattened(_)
\* The managed runtime's flattening of a name: every "." replaced by "_"
\* and every "_" by "_1".
Flattened(str) ==
    IF str = <<>> THEN <<>>
    ELSE (IF Head(str) = "." THEN <<"_">>
          ELSE IF Head(str) = "_" THEN <<"_", "1">>
          ELSE <<Head(str)>>) \o Flattened(Tail(str))

\* C15: the symbol of the bridge function is the one the managed runtime
\* derives for the native method declared in class Module of the package
\* written for the module.
BridgeMatchesTarget ==
    (bridge # <<>> /\ target # NoTarget)
        => bridge = JAVA_TEXT
                    \o Flattened(target.package \o <<".">> \o target.class)
                    \o <<"_">> \o Flattened(target.method)

\* C15 witness: bridge and target were written for a function in a nested
\* module with underscores in every name.
BothWritten ==
    /\ bridge # <<>>
    /\ target # NoTarget
    /\ Len(function.path) = 2
    /\ function.crate = <<"a", "_">>
    /\ function.path[1] = <<"_", "a">>
    /\ function.pubname = <<"a", "_">>


\* The four shapes of the claim around a type t.
WrappedShapes(t) == {t, OptionOf(t), ResultOf(t), ResultOf(OptionOf(t))}

\* What the operation `by` infers for the type ty when no rule is given.
InferredBy(by, ty) ==
    IF by = "Input::parse" THEN Input_from(ty, NoRule)
    ELSE IF by = "Output::parse" THEN Output_from(ty, NoRule)
    ELSE IF by = "parse::infer" THEN parse_MarshalingRule_infer(ty)
    ELSE macros_MarshalingRule_infer(NoRule, ty)

\* The rule of a parsed item together with the path its Struct rule refers
\* to: the path inside the rule in parse.rs, unwrapped_type in ir.rs.
RuleAndPath(by, item) ==
    IF item = SynError THEN item
    ELSE IF by \in {"Input::parse", "Output::parse"}
    THEN IF item.rule = Rule("Struct") THEN Struct(item.unwrapped_type)
         ELSE item.rule
    ELSE item

\* C16: for every type T that is not a wrapper, the rule inferred for
\* Result<Option<T>, E>, for Result<T, E>, for Option<T> and for T is the
\* same rule, and a Struct rule refers to the path of T, not to the path of
\* the wrapper.
InferenceIgnoresWrappers ==
    \A t \in Unwrapped :
        (/\ parsed.by \in {"Input::parse", "Output::parse", "parse::infer"}
         /\ marshal = NoRule
         /\ declared \in WrappedShapes(t))
        => RuleAndPath(parsed.by, parsed.item)
           = RuleAndPath(parsed.by, InferredBy(parsed.by, t))

\* C17: a rule R given by `#[riko::marshal = "R"]` on a parameter or by
\* `marshal = "R"` on the function is the rule of the Input or Output
\* whatever the declared type is, while unwrapped_type and the by-reference
\* flag are those the declared type gives without the override.
ExplicitOverrideVerbatim ==
    (/\ parsed.by \in {"Input::parse", "Output::parse"}
     /\ marshal # NoRule
     /\ parsed.item # SynError)
    => /\ parsed.item.rule = marshal
       /\ InferredBy(parsed.by, declared) # SynError
       /\ parsed.item.unwrapped_type
          = InferredBy(parsed.by, declared).unwrapped_type
       /\ parsed.by = "Input::parse"
          => parsed.item.borrow = (declared.kind = "Reference")

\* An override on a return type whose inferred rule is another one.
OverrideOnWrappedBool ==
    /\ parsed.by = "Output::parse"
    /\ declared = ResultOf(OptionOf(Named(<<"bool">>)))
    /\ marshal = Rule("I32")
    /\ parsed.item.rule = Rule("I32")
    /\ parsed.item.unwrapped_type = Named(<<"bool">>)

\* The paths of the table of the claim, and the marker type of byte
\* buffers that the table of the rule engine lists besides.
TableRule(by, t) ==
    IF t = Named(<<"bool">>) THEN "Bool"
    ELSE IF t = Named(<<"i8">>) THEN "I8"
    ELSE IF t = Named(<<"i32">>) THEN "I32"
    ELSE IF t = Named(<<"i64">>) THEN "I64"
    ELSE IF t \in {Named(<<"String">>), Named(<<"std", "string", "String">>),
                   TypePath(TRUE, <<"std", "string", "String">>, <<>>)}
    THEN "String"
    ELSE IF /\ by # "macros::infer"
            /\ t \in {Named(<<"ByteBuf">>), Named(<<"serde_bytes", "ByteBuf">>),
                      TypePath(TRUE, <<"serde_bytes", "ByteBuf">>, <<>>)}
    THEN "Bytes"
    ELSE IF /\ by = "macros::infer"
            /\ t = TypePath(FALSE, <<"Vec">>, <<Arg(Named(<<"u8">>))>>)
    THEN "Bytes"
    ELSE IF by = "macros::infer" THEN "Serde"
    ELSE "Struct"

\* The name of the rule of a parsed item.
RuleName(by, item) ==
    IF item = SynError THEN "syn::Error"
    ELSE IF by \in {"Input::parse", "Output::parse"} THEN item.rule.name
    ELSE item.name

\* C18: with no override, inference gives every path a rule: bool -> Bool,
\* i8 -> I8, i32 -> I32, i64 -> I64, String, std::string::String and
\* ::std::string::String -> String, and the generic structural rule
\* (Struct, Serde in the macro crate) for every path that is not in the
\* table.
InferenceTable ==
    (/\ parsed.by \in {"Input::parse", "Output::parse", "macros::infer"}
     /\ marshal = NoRule
     /\ declared \in Unwrapped \ {UnitType})
    => RuleName(parsed.by, parsed.item) = TableRule(parsed.by, declared)

RECURSIVE OuterForm(_)
\* The guards among the attributes, each in the form `#[cfg(..)]`.
OuterForm(attrs) ==
    IF attrs = <<>> THEN <<>>
    ELSE IF Head(attrs).path = "cfg"
    THEN <<Cfg("Outer", Head(attrs).tokens[1], Head(attrs).tokens[2])>>
         \o OuterForm(Tail(attrs))
    ELSE OuterForm(Tail(attrs))

RECURSIVE GuardsOfModules(_)
\* The guards of the modules from the outermost to the innermost, those on
\* the `mod` item before those inside the module.
GuardsOfModules(mods) ==
    IF mods = <<>> THEN <<>>
    ELSE OuterForm(Head(mods).outer \o Head(mods).inner)
         \o GuardsOfModules(Tail(mods))

\* C19: collect_cfg for a function returns the guards of its ancestor
\* modules from the outermost to the innermost, then the guards of the
\* function, within each level in the order in which they are written, and
\* every guard written `#![cfg(..)]` is returned as `#[cfg(..)]`.
CfgAggregationOrder ==
    collected.collected
    => collected.cfg
       = GuardsOfModules(source.mods)
         \o OuterForm(source.function.outer \o source.function.inner)

\* C20: for every function of the IR, collect_cfg contains every guard of
\* each of its ancestor modules, written on the `mod` item or inside the
\* module, for a module with a body and for a module in a file of its own.
CfgAggregationComplete ==
    collected.collected
    => \A k \in 1..Len(source.mods) :
           \A guard \in {a \in {source.mods[k].outer[i] :
                                   i \in 1..Len(source.mods[k].outer)}
                              \cup {source.mods[k].inner[i] :
                                       i \in 1..Len(source.mods[k].inner)} :
                            a.path = "cfg"} :
               \E i \in 1..Len(collected.cfg) :
                   collected.cfg[i].tokens = guard.tokens

\* The async block of slot s holds the converted output of its future.
OutputConverted(s) == task[s].pc \in {"converted", "locked", "removed", "notified"}

\* The async block of slot s has taken its tracking entry out of the pool.
EntryRemoved(s) == task[s].pc \in {"removed", "notified"}

\* C26: a finished task converts the output of its future only after it has
\* removed its own tracking entry, and calls the notifier after that; a task
\* whose removal finds no entry converts nothing and notifies nobody.
ConversionAfterRemoval ==
    \A s \in Slots : OutputConverted(s) => EntryRemoved(s)

\* The steps of the completion of the task in slot s, from taking the Mutex
\* around POOL to releasing it.
Completion(s) ==
    /\ TaskLock(s) \/ TaskRemove(s) \/ TaskNotify(s) \/ TaskForget(s)
    /\ UNCHANGED <<objectVars, returnedVars, compilerVars>>

\* The async bridge under fair scheduling of the worker pool: a worker that
\* can time and again take the Mutex around POOL eventually takes it, and a
\* worker holding it runs the completion step to its end.
SpecFutureFair == SpecFuture /\ \A s \in Slots : SF_vars(Completion(s))

\* The task in slot s was spawned under h and its entry has been removed
\* neither by a cancel nor by its own completion step.
Registered(s, h) ==
    /\ task[s].handle = h
    /\ task[s].pc \in {"running", "converted", "locked"}
    /\ ~task[s].cancelled

\* The task in slot s was spawned under h, is still on the executor, and its
\* entry has been removed by a cancel or by its own completion step.
Unregistered(s, h) ==
    /\ task[s].handle = h
    /\ \/ task[s].pc \in {"removed", "notified"}
       \/ task[s].pc \in {"running", "converted", "locked"} /\ task[s].cancelled

\* The entry of h exists from its registration to its first removal and does
\* not come back.
EntryFromSpawnToFirstRemoval ==
    \A s \in Slots, h \in Handles :
        /\ Registered(s, h) => pool[h] = s
        /\ Unregistered(s, h) => pool[h] = NoTask

\* A finished future that no cancel call removed ends with its notifier
\* invoked once and its handle untracked, unless cancel(h) is called.
CompletionIsDelivered ==
    \A s \in Slots, h \in Handles :
        (task[s].pc = "converted" /\ task[s].handle = h /\ ~task[s].cancelled)
            ~> \/ lastOp.op = "cancel" /\ lastOp.h = h
               \/ /\ task[s].pc = "notified" /\ task[s].handle = h
                  /\ notified[h] = 1 /\ pool[h] = NoTask

\* C27: the tracking entry of h exists from the moment spawn registers it
\* until the first of {completion of h, cancel(h)} removes it and is never
\* re-created; under fair scheduling, a future of h that finishes while
\* cancel(h) is never called ends with notifier(h, ..) invoked exactly once
\* and h untracked.
EntryLifecycle == []EntryFromSpawnToFirstRemoval /\ CompletionIsDelivered

\* The task in slot s is between its removal of the entry and the end of its
\* notifier call.
InNotifier(s) == task[s].pc = "removed"

\* The task in slot s is between `POOL.lock()` and the end of the `if let`
\* statement.
InCompletion(s) == task[s].pc \in {"locked", "removed", "notified"}

\* The last step was a step of a spawn or cancel call.
CallerStep(op) == op.op \in {"spawn", "cancel", "spawn_lock", "cancel_lock"}

ActionsOn(o) ==
    {<<t, i>> \in Threads \X (1..MaxDepth) :
        /\ i <= Len(stacks[t])
        /\ stacks[t][i].pc = "action"
        /\ stacks[t][i].obj = o}

\* C28: at most one action of a peek runs against the object of a handle at
\* any time; peek calls of different threads on it are serialised, and each
\* action finds in the object every mutation of the actions that completed
\* before it, none of which is lost.
PeekActionsSerialised ==
    \A o \in ObjIds :
        /\ Cardinality(ActionsOn(o)) <= 1
        /\ memory.content[o] = memory.mutated[o]
        /\ \A f \in ActionsOn(o) : memory.locals[f[1]][f[2]] = memory.mutated[o]

\* C28 witness: the action of a peek runs against an object that the
\* completed action of an earlier peek has mutated, while the peek of another
\* thread on the same handle waits for the object.
SecondActionWhileThirdWaits ==
    \E t, u \in Threads :
        /\ t # u
        /\ stacks[t] # <<>> /\ stacks[u] # <<>>
        /\ stacks[t][1].pc = "action"
        /\ stacks[u][1].pc = "unlocked"
        /\ stacks[u][1].obj = stacks[t][1].obj
        /\ stacks[u][1].h = stacks[t][1].h
        /\ memory.mutated[stacks[t][1].obj] = 1
        /\ memory.locals[t][1] = 1

\* The peek calls on handle h whose action is running against the object
\* stored under h.
RunningOn(h) ==
    {f \in ActionsOn(objPool[h]) : stacks[f[1]][f[2]].h = h}

\* No peek is between its lookup and `drop(pool_guard)`.
NoLookupInProgress ==
    \A t \in Threads : \A i \in 1..Len(stacks[t]) : stacks[t][i].pc # "cloned"

\* drop(h) by a thread other than those running an action on h returns at
\* once, whatever the actions do.
DropDoesNotWait ==
    \A h \in Handles, t \in Threads :
        (/\ RunningOn(h) # {}
         /\ \A f \in RunningOn(h) : f[1] # t
         /\ CanCall(t)
         /\ NoLookupInProgress)
            => ENABLED (Pool_drop(t, h) /\ Mutating)

\* A drop of h during an action on h removes the entry and leaves the peek
\* calls, the objects and their contents as they are.
DropLeavesAction ==
    \A h \in Handles :
        (objOp'.op = "drop" /\ objOp'.h = h /\ RunningOn(h) # {})
            => /\ objOp'.ok
               /\ objPool'[h] = NoObj
               /\ stacks' = stacks
               /\ objects' = objects
               /\ memory' = memory

\* Right after drop(h), alive(h) answers false and peek(h, ..) panics.
DroppedIsGone ==
    (objOp.op = "drop" /\ objOp'.h = objOp.h)
        => /\ objOp'.op = "alive" => ~objOp'.flag
           /\ objOp'.op = "peek" => ~objOp'.ok

\* The object of a running action exists, locked by the thread of the
\* action and not poisoned, also when its handle is gone from the map.
ActionHoldsObject ==
    \A o \in ObjIds : \A f \in ActionsOn(o) :
        /\ o \in Live(objPool, stacks)
        /\ objects[o] = [holder |-> f[1], poisoned |-> FALSE]

\* An object locked by an action goes away only when that peek returns (or
\* its thread panics), and a peek whose handle was dropped returns normally.
DestroyedAfterReturn ==
    /\ \A o \in ObjIds :
          (ActionsOn(o) # {} /\ o \notin Live(objPool', stacks'))
              => \/ objOp'.op = "return"
                 \/ ~objOp'.ok
    /\ \A t \in Threads :
          (/\ objOp'.op = "return"
           /\ Len(stacks'[t]) < Len(stacks[t])
           /\ objPool[Top(t).h] = NoObj)
              => /\ objOp'.ok
                 /\ memory.content[Top(t).obj] = memory.locals[t][Len(stacks[t])]
                 /\ objects'[Top(t).obj].holder = 0

\* C29: a drop(h) by another thread while an action of peek(h, ..) runs
\* returns without waiting for the action, and alive(h) is false from then
\* on; the action completes normally against the original object, which is
\* destroyed only after the action has returned; a peek(h, ..) that starts
\* after the drop panics.
DropRacingPeek ==
    /\ []DropDoesNotWait
    /\ []ActionHoldsObject
    /\ [][DropLeavesAction /\ DroppedIsGone /\ DestroyedAfterReturn]_vars

\* C29 witness: drop(h) has just removed the entry of h while a thread that
\* could not have called it (it is inside a nested peek) runs an action on
\* the object of h, which that thread still holds.
DroppedUnderRunningAction ==
    /\ objOp.op = "drop"
    /\ objOp.flag
    /\ objPool[objOp.h] = NoObj
    /\ \E u \in Threads :
          /\ Len(stacks[u]) = 2
          /\ stacks[u][1].h = objOp.h
          /\ stacks[u][1].pc = "action"
          /\ stacks[u][2].pc = "unlocked"
          /\ objects[stacks[u][1].obj].holder = u


\* bindgen has run over the crate.
Ran == passes > 0

\* The two modules and the function written in the crate root.
FirstModule == files[CRATE_ENTRY].items[1]

SecondModule == files[CRATE_ENTRY].items[2]

RootFunction == files[CRATE_ENTRY].items[3]

\* The item carries an attribute with this path.
Carries(item, path) ==
    \E i \in DOMAIN item.attrs : item.attrs[i].path = path

\* The names of the functions of the IR.
ScannedNames ==
    UNION {{scanned.modules[i].functions[j].name :
               j \in 1..Len(scanned.modules[i].functions)} :
           i \in DOMAIN scanned.modules}

\* C21: no two Modules of a Crate produced by Crate::parse have the same
\* path, and the lookup by path made for a module of the Crate ends at that
\* module.
ModulePathsUnique ==
    \A i \in DOMAIN scanned.modules :
        /\ \A j \in DOMAIN scanned.modules :
               scanned.modules[i].path = scanned.modules[j].path => i = j
        /\ LET found == modules_by_path(scanned, scanned.modules[i].path)
           IN found = <<>> \/ found[Len(found)] = scanned.modules[i]

\* The file Rust takes for a module declared in the crate root.
FileBehind(module) ==
    LET given == {i \in DOMAIN module.attrs : module.attrs[i].path = "path"}
        sibling == <<SRC, module.ident \o RS>>
    IN IF given # {}
       THEN <<SRC>> \o module.attrs[CHOOSE i \in given : TRUE].tokens
       ELSE IF files[sibling] # NoFile THEN sibling
            ELSE <<SRC, module.ident, MOD_RS>>

\* The names of the exported functions written in a file.
ExportedIn(file) ==
    IF file.file # "source" THEN {}
    ELSE {file.items[i].ident :
             i \in {k \in DOMAIN file.items :
                       Carries(file.items[k], "riko :: fun")}}

\* The module paths of the crate as written, ignored modules left out.
DeclaredPaths ==
    {<<>>, <<SecondModule.ident>>}
    \cup (IF Carries(FirstModule, "riko :: ignore") THEN {}
          ELSE {<<FirstModule.ident>>}
               \cup (IF FirstModule.content.tag = "None" THEN {}
                     ELSE {<<FirstModule.ident, FirstModule.content.v[k].ident>> :
                              k \in {n \in DOMAIN FirstModule.content.v :
                                        FirstModule.content.v[n].kind = "Mod"}}))

\* C22: the path of a module of the IR is the path of its parent followed
\* by its name; the file read for `mod name;` written in the crate root is
\* the one named by its path attribute, taken from the directory of the
\* root file, and without that attribute name.rs next to the root file if
\* it exists and name/mod.rs otherwise; the module of the IR holds the
\* functions of that file.
ModuleResolution ==
    Ran =>
        /\ scanned.ok =>
               {scanned.modules[i].path : i \in DOMAIN scanned.modules}
                   = DeclaredPaths
        /\ (FirstModule.content.tag = "None"
            /\ ~Carries(FirstModule, "riko :: ignore")) =>
               /\ {scanned.log[k].file :
                      k \in {n \in DOMAIN scanned.log :
                                /\ scanned.log[n].op = "read"
                                /\ scanned.log[n].site = FirstModule.site}}
                      = {FileBehind(FirstModule)}
               /\ scanned.ok =>
                      \E i \in DOMAIN scanned.modules :
                          /\ scanned.modules[i].path = <<FirstModule.ident>>
                          /\ {scanned.modules[i].functions[j].name :
                                 j \in 1..Len(scanned.modules[i].functions)}
                                 = ExportedIn(files[FileBehind(FirstModule)])
                          /\ scanned.modules[i].functions # <<>>

\* C22 witness: `#[path = "q.rs"] mod m;` in a crate that also has m.rs and
\* m/mod.rs was parsed into the module m holding the function of q.rs.
PathAttributeWins ==
    /\ Ran
    /\ scanned.ok
    /\ FirstModule.content.tag = "None"
    /\ FileBehind(FirstModule) = <<SRC, <<"q">> \o RS>>
    /\ files[<<SRC, <<"m">> \o RS>>].file = "source"
    /\ files[<<SRC, <<"m">>, MOD_RS>>].file = "source"
    /\ \E i \in DOMAIN scanned.modules :
           /\ scanned.modules[i].path = <<FirstModule.ident>>
           /\ scanned.modules[i].functions # <<>>
           /\ scanned.modules[i].functions[1].name = <<"z">>

\* C23: a file of an external module that cannot be read does not make
\* the parsing fail.
MissingModuleIsRecoverable ==
    \A k \in DOMAIN scanned.log :
        (scanned.log[k].op = "read" /\ ~is_file(files, scanned.log[k].file))
            => scanned.ok

\* The names of the functions written in the body of a module or in a
\* file other than the crate root.
WrittenUnder(module) ==
    (IF module.content.tag = "None" THEN {}
     ELSE {module.content.v[k].ident :
              k \in {n \in DOMAIN module.content.v :
                        module.content.v[n].kind = "Fn"}})
    \cup UNION {{files[p].items[k].ident : k \in DOMAIN files[p].items} :
                   p \in {q \in DOMAIN files \ {CRATE_ENTRY} :
                             files[q].file = "source"}}

\* The names of the functions that are ignored or written under an ignored
\* module.
IgnoredNames ==
    {f.ident : f \in {g \in {RootFunction, SecondModule.content.v[1]} :
                         Carries(g, "riko :: ignore")}}
    \cup (IF Carries(FirstModule, "riko :: ignore")
          THEN WrittenUnder(FirstModule) ELSE {})

\* C24: no Function of the IR is an ignored function or written under an
\* ignored module, no Module of the IR is an ignored module or nested in
\* one, and the file of an ignored module is neither resolved nor read, so
\* that the parsing succeeds whatever is at it.
IgnoreMarker ==
    Ran =>
        /\ ScannedNames \cap IgnoredNames = {}
        /\ Carries(FirstModule, "riko :: ignore") =>
               /\ scanned.ok
               /\ \A k \in DOMAIN scanned.log :
                      /\ scanned.log[k].site = SecondModule.site
                      /\ scanned.log[k].op = "resolve"
               /\ Len(scanned.modules) = 2
               /\ scanned.modules[1].path = <<SecondModule.ident>>
               /\ scanned.modules[1].cfg = extract_cfg(SecondModule.attrs)
               /\ scanned.modules[2].path = <<>>

\* C24 witness: the crate with `#[riko::ignore] mod m;` and a file m.rs
\* that is not Rust was parsed, and bridge functions were written.
IgnoredBrokenModule ==
    /\ Ran
    /\ Carries(FirstModule, "riko :: ignore")
    /\ FirstModule.content.tag = "None"
    /\ ~Carries(FirstModule, "path")
    /\ files[<<SRC, <<"m">> \o RS>>] = Garbage
    /\ scanned.ok
    /\ generated # <<>>

\* The function items of the crate: those of the root, of the bodies of
\* its modules and of its other files.
FnItems ==
    {RootFunction, SecondModule.content.v[1]}
    \cup (IF FirstModule.content.tag = "None" THEN {}
          ELSE {FirstModule.content.v[1]})
    \cup UNION {{files[p].items[k] : k \in DOMAIN files[p].items} :
                   p \in {q \in DOMAIN files \ {CRATE_ENTRY} :
                             files[q].file = "source"}}

\* The name given in `#[riko::fun(name = "..")]`, or the identifier.
PublicNameOf(item) ==
    LET given == {i \in DOMAIN item.attrs :
                     /\ item.attrs[i].path = "riko :: fun"
                     /\ item.attrs[i].tokens # <<>>}
    IN IF given = {} THEN item.ident
       ELSE item.attrs[CHOOSE i \in given : TRUE].tokens[1]

\* C25: the public name of a Function is the name argument of its
\* `#[riko::fun]` if it has one and its identifier otherwise; the symbol of
\* its bridge function and its managed methods are made from the public
\* name, and the bridge function calls the function by its identifier under
\* the path of its module.
PublicName ==
    (Ran /\ scanned.ok) =>
        \A i \in DOMAIN scanned.modules :
            \A j \in 1..Len(scanned.modules[i].functions) :
                LET fn == scanned.modules[i].functions[j]
                    module == scanned.modules[i].path
                    item == CHOOSE it \in FnItems : it.ident = fn.name
                    public == PublicNameOf(item)
                IN /\ fn.pubname = public
                   /\ \E k \in DOMAIN generated :
                          /\ generated[k].symbol =
                                 mangle_function_name(public, module, CRATE_NAME)
                          /\ generated[k].method = public
                          /\ generated[k].native = PREFIX_TEXT \o public
                          /\ generated[k].invocation =
                                 <<CRATE>> \o module \o <<item.ident>>

\* C25 witness: the function h of the second module, exported under the
\* name g_, has a bridge function and a managed method named after g_, and
\* the bridge function calls h.
RenamedInModule ==
    \E k \in DOMAIN generated :
        /\ generated[k].method = <<"g", "_">>
        /\ generated[k].invocation = <<CRATE, SecondModule.ident, <<"h">>>>
        /\ generated[k].symbol =
               mangle_function_name(<<"g", "_">>, <<SecondModule.ident>>,
                                    CRATE_NAME)

====
